---------------------------- MODULE Spec2Model ----------------------------
(***************************************************************************)
(* Tangents: Steiner-Parker multimode filter for the disting NT            *)
(* (src/tangents.cpp).  The model follows one filter instance: the host's  *)
(* parameter array v[], the shared bus buffer, the instance's DTC struct   *)
(* and the position of the step() callback inside its loops.               *)
(*                                                                         *)
(* Arithmetic.  The code computes in IEEE-754 single precision.  The model *)
(* computes in a decimal floating point format with the same special       *)
(* values and the same dynamic range, and a shorter significand:           *)
(*    <<m, e>>  with 1000 <= |m| <= 9999 stands for  m * 10^(e-3),         *)
(*    <<0, 0>>  is zero,  <<1, SpecialExp>>, <<-1, SpecialExp>> are the    *)
(*    infinities and <<0, SpecialExp>> is NaN.                             *)
(* Every operation rounds its exact result to four digits (half away from  *)
(* zero), overflows to an infinity above MaxFloat and flushes to zero      *)
(* below the smallest normal number.  NaN compares false with everything.  *)
(* Decimal literals of the source (0.1, 0.95, 1.9, 0.45, 1e10...) are      *)
(* exact in this format.                                                   *)
(***************************************************************************)
EXTENDS Integers, Sequences, FiniteSets, TLC

\* ------------------------------------------------------------------------
\* A local variable of the source holds a value that is computed once:
\* The({ e(x) : x \in {value} }) is e with x naming that value.
\* ------------------------------------------------------------------------
The(S) == CHOOSE x \in S : TRUE

\* ------------------------------------------------------------------------
\* The float type
\* ------------------------------------------------------------------------
MantLo == 1000
MantHi == 9999
SpecialExp == 99
\* FLT_MAX = 3.402e38, FLT_MIN (smallest normal) = 1.175e-38
MaxExp == 38
MaxMant == 3402
MinExp == -38
MinMant == 1175

Zero == <<0, 0>>
NaN == <<0, SpecialExp>>
PosInf == <<1, SpecialExp>>
NegInf == <<-1, SpecialExp>>
FltMax == <<MaxMant, MaxExp>>

Pow10(n) ==
  CASE n = 0 -> 1 [] n = 1 -> 10 [] n = 2 -> 100 [] n = 3 -> 1000
    [] n = 4 -> 10000 [] n = 5 -> 100000 [] n = 6 -> 1000000
    [] n = 7 -> 10000000 [] n = 8 -> 100000000 [] n = 9 -> 1000000000

NumDigits(a) ==
  IF a < 10000
  THEN (IF a < 10 THEN 1 ELSE IF a < 100 THEN 2 ELSE IF a < 1000 THEN 3 ELSE 4)
  ELSE IF a < 10000000
  THEN (IF a < 100000 THEN 5 ELSE IF a < 1000000 THEN 6 ELSE 7)
  ELSE (IF a < 100000000 THEN 8 ELSE IF a < 1000000000 THEN 9 ELSE 10)

Abs(n) == IF n < 0 THEN -n ELSE n
Sgn(n) == IF n < 0 THEN -1 ELSE IF n > 0 THEN 1 ELSE 0

IsNaN(x) == x = NaN
IsInf(x) == x = PosInf \/ x = NegInf
IsFinite(x) == x[2] # SpecialExp
IsZero(x) == x = Zero

\* Range check of a normalised significand and exponent: overflow to an
\* infinity, underflow to zero.
Ranged(s, m, e) ==
  IF e > MaxExp \/ (e = MaxExp /\ m > MaxMant) THEN <<s, SpecialExp>>
  ELSE IF e < MinExp \/ (e = MinExp /\ m < MinMant) THEN Zero
  ELSE <<s * m, e>>

\* The float nearest to M * 10^x.
Round(M, x) ==
  IF M = 0 THEN Zero
  ELSE LET a == Abs(M)
           d == NumDigits(a)
       IN  IF d <= 4
           THEN Ranged(Sgn(M), a * Pow10(4 - d), x + d - 1)
           ELSE LET sh == d - 4
                    q  == (a \div Pow10(sh))
                          + (IF (a % Pow10(sh)) >= 5 * Pow10(sh - 1) THEN 1 ELSE 0)
                IN  IF q > MantHi
                    THEN Ranged(Sgn(M), MantLo, x + d)
                    ELSE Ranged(Sgn(M), q, x + d - 1)

\* A literal of the source: n * 10^x.
Lit(n, x) == Round(n, x)
\* (float) of an int.
FromInt(n) == Round(n, 0)

FNeg(x) == IF IsNaN(x) THEN NaN ELSE <<-x[1], x[2]>>
FAbs(x) == IF IsNaN(x) THEN NaN ELSE <<Abs(x[1]), x[2]>>

\* -1, 0, 1 as a < b, a = b, a > b; neither is NaN.
CmpMag(a, b) ==
  IF a[2] # b[2] THEN (IF a[2] < b[2] THEN -1 ELSE 1)
  ELSE IF a[1] < b[1] THEN -1 ELSE IF a[1] > b[1] THEN 1 ELSE 0

Cmp(a, b) ==
  LET sa == Sgn(a[1])
      sb == Sgn(b[1])
  IN  IF sa # sb THEN (IF sa < sb THEN -1 ELSE 1)
      ELSE IF sa = 0 THEN 0
      ELSE IF sa > 0 THEN CmpMag(a, b)
      ELSE CmpMag(FAbs(b), FAbs(a))

FLt(a, b) == ~IsNaN(a) /\ ~IsNaN(b) /\ Cmp(a, b) < 0
FGt(a, b) == ~IsNaN(a) /\ ~IsNaN(b) /\ Cmp(a, b) > 0
FLe(a, b) == ~IsNaN(a) /\ ~IsNaN(b) /\ Cmp(a, b) <= 0
FGe(a, b) == ~IsNaN(a) /\ ~IsNaN(b) /\ Cmp(a, b) >= 0
\* x != x of the source
FNe(a, b) == IsNaN(a) \/ IsNaN(b) \/ Cmp(a, b) # 0

FAdd(a, b) ==
  IF IsNaN(a) \/ IsNaN(b) THEN NaN
  ELSE IF IsInf(a) THEN (IF IsInf(b) /\ a # b THEN NaN ELSE a)
  ELSE IF IsInf(b) THEN b
  ELSE IF IsZero(a) THEN b
  ELSE IF IsZero(b) THEN a
  ELSE LET hi == IF a[2] >= b[2] THEN a ELSE b
           lo == IF a[2] >= b[2] THEN b ELSE a
           df == hi[2] - lo[2]
       IN  IF df > 5 THEN hi
           ELSE Round(hi[1] * Pow10(df) + lo[1], lo[2] - 3)

FSub(a, b) == FAdd(a, FNeg(b))

FMul(a, b) ==
  IF IsNaN(a) \/ IsNaN(b) THEN NaN
  ELSE IF IsInf(a) \/ IsInf(b)
       THEN (IF IsZero(a) \/ IsZero(b) THEN NaN
             ELSE <<Sgn(a[1]) * Sgn(b[1]), SpecialExp>>)
  ELSE IF IsZero(a) \/ IsZero(b) THEN Zero
  ELSE Round(a[1] * b[1], a[2] + b[2] - 6)

FDiv(a, b) ==
  IF IsNaN(a) \/ IsNaN(b) THEN NaN
  ELSE IF IsInf(a)
       THEN (IF IsInf(b) THEN NaN
             ELSE <<Sgn(a[1]) * (IF b[1] < 0 THEN -1 ELSE 1), SpecialExp>>)
  ELSE IF IsInf(b) THEN Zero
  ELSE IF IsZero(b)
       THEN (IF IsZero(a) THEN NaN ELSE <<Sgn(a[1]), SpecialExp>>)
  ELSE IF IsZero(a) THEN Zero
  ELSE Round(Sgn(a[1]) * Sgn(b[1]) * ((Abs(a[1]) * 100000) \div Abs(b[1])),
             a[2] - b[2] - 5)

\* (int) of a float that is finite and within the range of int: truncation
\* toward zero.
ToInt(x) ==
  IF x[2] < 0 THEN 0
  ELSE IF x[2] <= 3 THEN Sgn(x[1]) * (Abs(x[1]) \div Pow10(3 - x[2]))
  ELSE x[1] * Pow10(x[2] - 3)


\* ------------------------------------------------------------------------
\* libm: tanf, expf, powf(2, .)
\* ------------------------------------------------------------------------
One == Lit(1, 0)
Two == Lit(2, 0)
M_PI == Lit(3142, -3)

\* tanf on (-pi/2, pi/2), where step() uses it (the argument is at most
\* pi * 0.45): the [5/4] Pade approximant
\*     x (945 - 105 x^2 + x^4) / (945 - 420 x^2 + 15 x^4).
\* tanf of NaN or of an infinity is NaN.
tanf(x) ==
  IF ~IsFinite(x) THEN NaN
  ELSE The({ The({ FDiv(FMul(x, FAdd(FSub(Lit(945, 0), FMul(Lit(105, 0), x2)), x4)),
                        FAdd(FSub(Lit(945, 0), FMul(Lit(420, 0), x2)),
                             FMul(Lit(15, 0), x4)))
                   : x4 \in {FMul(x2, x2)} })
             : x2 \in {FMul(x, x)} })

\* b^n for an int n >= 0, by squaring.
RECURSIVE PowInt(_, _)
PowInt(b, n) ==
  IF n = 0 THEN One
  ELSE IF n % 2 = 1 THEN FMul(b, PowInt(b, n - 1))
  ELSE The({ FMul(h, h) : h \in {PowInt(b, n \div 2)} })

\* e^r for 0 <= r < 1: the Taylor polynomial of degree 7, by Horner's rule.
RECURSIVE ExpFrac(_, _)
ExpFrac(r, j) ==
  IF j > 7 THEN One
  ELSE FAdd(One, FMul(FDiv(r, FromInt(j)), ExpFrac(r, j + 1)))

\* expf: e^|x| = e^n * e^r with n = (int)|x|, inverted for x < 0.  Above
\* ln(FLT_MAX) the result is +Inf, below ln(FLT_MIN) it is 0.
expf(x) ==
  IF IsNaN(x) THEN NaN
  ELSE IF FGt(x, Lit(8872, -2)) THEN PosInf
  ELSE IF FLt(x, Lit(-8733, -2)) THEN Zero
  ELSE The({ IF x[1] < 0 THEN FDiv(One, e) ELSE e
             : e \in { FMul(PowInt(Lit(2718, -3), n),
                            ExpFrac(FSub(FAbs(x), FromInt(n)), 1))
                       : n \in {ToInt(FAbs(x))} } })

\* powf(2.0f, y) = e^(y ln 2)
powf2(y) == expf(FMul(y, Lit(6931, -4)))

\* ------------------------------------------------------------------------
\* Helper functions of the source
\* ------------------------------------------------------------------------
fastTanh(x) ==
  IF FGt(x, Lit(3, 0)) THEN One
  ELSE IF FLt(x, Lit(-3, 0)) THEN FNeg(One)
  ELSE The({ FDiv(FMul(x, FAdd(Lit(27, 0), x2)),
                  FAdd(Lit(27, 0), FMul(Lit(9, 0), x2)))
             : x2 \in {FMul(x, x)} })

\* diodeClip with the "1 -" of the negative branch left out.
diodeClipOffset(x) ==
  IF FGt(x, Zero)
  THEN FSub(One, expf(FNeg(x)))
  ELSE FMul(Lit(-5, -1), expf(FMul(Two, x)))

\* diodeClip with the factor 0.5 of the negative branch left out.
diodeClipUnscaled(x) ==
  IF FGt(x, Zero)
  THEN FSub(One, expf(FNeg(x)))
  ELSE FNeg(FSub(One, expf(FMul(Two, x))))

diodeClip(x) ==
  IF FGt(x, Zero)
  THEN FSub(One, expf(FNeg(x)))
  ELSE FMul(Lit(-5, -1), FSub(One, expf(FMul(Two, x))))

aggressiveSat(x) ==
  The({ IF FGt(FAbs(y), Lit(8, -1))
        THEN LET excess == FSub(FAbs(y), Lit(8, -1))
             IN  FMul(IF FGt(y, Zero) THEN One ELSE FNeg(One),
                      FSub(Lit(8, -1), FMul(excess, Lit(5, -1))))
        ELSE y
        : y \in {fastTanh(FMul(x, Two))} })

\* sanitize without the x != x test.
sanitizeNoNaN(x) ==
  IF FGt(x, Lit(1, 10)) \/ FLt(x, Lit(-1, 10)) THEN Zero ELSE x

\* sanitize that limits a large value to 1e10 instead of zeroing it.
sanitizeLimiting(x) ==
  IF FNe(x, x) THEN Zero
  ELSE IF FGt(x, Lit(1, 10)) THEN Lit(1, 10)
  ELSE IF FLt(x, Lit(-1, 10)) THEN Lit(-1, 10)
  ELSE x

sanitize(x) ==
  IF FNe(x, x) \/ FGt(x, Lit(1, 10)) \/ FLt(x, Lit(-1, 10)) THEN Zero ELSE x

softClamp(x, limit) ==
  IF FGt(x, limit) THEN limit
  ELSE IF FLt(x, FNeg(limit)) THEN FNeg(limit)
  ELSE x


\* ------------------------------------------------------------------------
\* fastRandom: 32-bit xorshift.  A uint32_t is the sequence of its 32 bits,
\* s[i] being bit i-1.
\* ------------------------------------------------------------------------
Bit(n, i) == (n \div (2 ^ i)) % 2
\* The uint32_t with high half hi and low half lo.
U32(hi, lo) == [i \in 1..32 |-> IF i <= 16 THEN Bit(lo, i - 1) ELSE Bit(hi, i - 17)]
Shl(s, n) == [i \in 1..32 |-> IF i > n THEN s[i - n] ELSE 0]
Shr(s, n) == [i \in 1..32 |-> IF i + n <= 32 THEN s[i + n] ELSE 0]
XorW(s, t) == [i \in 1..32 |-> IF s[i] = t[i] THEN 0 ELSE 1]

RECURSIVE LowBits(_, _)
\* The value of bits 0..n-1 of s.
LowBits(s, n) == IF n = 0 THEN 0 ELSE s[n] * (2 ^ (n - 1)) + LowBits(s, n - 1)

\* The state after one xorshift step (13, 17, 5).
xorshift(state) ==
  The({ XorW(b, Shl(b, 5))
        : b \in { XorW(a, Shr(a, 17)) : a \in {XorW(state, Shl(state, 13))} } })

\* fastRandom that divides by the largest 30-bit value.
fastRandomHalfRange(state) ==
  The({ [state |-> s,
         value |-> FDiv(FromInt(LowBits(s, 31)), FromInt(1073741823))]
        : s \in {xorshift(state)} })

\* fastRandom(state): the new state and the returned float.
fastRandom(state) ==
  The({ [state |-> s,
         value |-> FDiv(FromInt(LowBits(s, 31)), FromInt(2147483647))]
        : s \in {xorshift(state)} })

\* processAGR with a random weight that vanishes at 50, not at 25.
processAGRWideRandom(agrValue, randState) ==
  IF agrValue <= 25
  THEN LET randomMix == FSub(One, FDiv(FromInt(agrValue), Lit(50, 0)))
           baseGain  == FDiv(FromInt(agrValue), Lit(50, 0))
       IN  The({ [gain |-> FAdd(baseGain, FMul(r.value, randomMix)),
                  randState |-> r.state]
                 : r \in {fastRandom(randState)} })
  ELSE IF agrValue <= 50
  THEN LET t == FDiv(FromInt(agrValue - 25), Lit(25, 0))
       IN  [gain |-> FAdd(Lit(5, -1), FMul(t, Lit(5, -1))),
            randState |-> randState]
  ELSE LET t == FDiv(FromInt(agrValue - 50), Lit(50, 0))
       IN  [gain |-> FAdd(One, FMul(t, Lit(3, 0))),
            randState |-> randState]

\* processAGR that draws a random number in every zone.
processAGRAlwaysDrawing(agrValue, randState) ==
  The({ IF agrValue <= 25
        THEN [gain |-> FAdd(FDiv(FromInt(agrValue), Lit(50, 0)),
                            FMul(r.value, FSub(One, FDiv(FromInt(agrValue), Lit(25, 0))))),
              randState |-> r.state]
        ELSE IF agrValue <= 50
        THEN [gain |-> FAdd(Lit(5, -1),
                            FMul(FDiv(FromInt(agrValue - 25), Lit(25, 0)), Lit(5, -1))),
              randState |-> r.state]
        ELSE [gain |-> FAdd(One, FMul(FDiv(FromInt(agrValue - 50), Lit(50, 0)),
                                      Lit(3, 0))),
              randState |-> r.state]
        : r \in {fastRandom(randState)} })

\* processAGR(agrValue, randState): the gain and the random state it leaves.
processAGR(agrValue, randState) ==
  IF agrValue <= 25
  THEN LET randomMix == FSub(One, FDiv(FromInt(agrValue), Lit(25, 0)))
           baseGain  == FDiv(FromInt(agrValue), Lit(50, 0))
       IN  The({ [gain |-> FAdd(baseGain, FMul(r.value, randomMix)),
                  randState |-> r.state]
                 : r \in {fastRandom(randState)} })
  ELSE IF agrValue <= 50
  THEN LET t == FDiv(FromInt(agrValue - 25), Lit(25, 0))
       IN  [gain |-> FAdd(Lit(5, -1), FMul(t, Lit(5, -1))),
            randState |-> randState]
  ELSE LET t == FDiv(FromInt(agrValue - 50), Lit(50, 0))
       IN  [gain |-> FAdd(One, FMul(t, Lit(3, 0))),
            randState |-> randState]

\* The cutoff after the two clamping statements of calculateFilterCoeffs.
ClampCutoff(cutoff, sampleRate) ==
  LET c1 == IF FLt(cutoff, Lit(20, 0)) THEN Lit(20, 0) ELSE cutoff
  IN  IF FGt(c1, FMul(sampleRate, Lit(45, -2)))
      THEN FMul(sampleRate, Lit(45, -2))
      ELSE c1

\* calculateFilterCoeffs with k = 2 - 2 * resonance.
calculateFilterCoeffsUndamped(cutoff, resonance, sampleRate) ==
  The({ [g |-> g, k |-> k,
         gInv |-> FDiv(One, FAdd(One, FMul(g, FAdd(g, k))))]
        : g \in {tanf(FDiv(FMul(M_PI, ClampCutoff(cutoff, sampleRate)), sampleRate))},
          k \in {FSub(Two, FMul(resonance, Two))} })

\* calculateFilterCoeffs: the g, k and gInv it stores.
calculateFilterCoeffs(cutoff, resonance, sampleRate) ==
  The({ [g |-> g, k |-> k,
         gInv |-> FDiv(One, FAdd(One, FMul(g, FAdd(g, k))))]
        : g \in {tanf(FDiv(FMul(M_PI, ClampCutoff(cutoff, sampleRate)), sampleRate))},
          k \in {FSub(Two, FMul(resonance, Lit(19, -1)))} })


\* ------------------------------------------------------------------------
\* Bounds of the model
\* ------------------------------------------------------------------------
\* step() calls in a run
MaxBlocks == 3
\* times the host changes the parameters in a run
MaxChanges == 1
\* numFramesBy4 of a step() call is in 1..MaxFramesBy4
MaxFramesBy4 == 1
\* step() calls before the frames that are delivered in two ways
MaxWarmUps == 1

\* NT_globals.sampleRate
SampleRate == 48000
smoothCoeff == Lit(1, -1)

\* The buses the model follows: 1 (the default input), 2 (a CV source) and
\* 13 (the default output).
Buses == {1, 2, 13}

\* ------------------------------------------------------------------------
\* State
\* ------------------------------------------------------------------------
VARIABLES
  host,       \* what the host does in this run: its signal and its preset
  v,          \* the host's parameter array of the instance
  busFrames,  \* the shared buffer: bus -> the frames of the current block
  dtc,        \* _tangentsAlgorithm_DTC
  pc,         \* where step() is: idle, sample, pass, finish, meters
  loc,        \* the locals of the running step() call
  nBlocks,    \* step() calls begun
  nChanges,   \* parameter changes made
  deliveries, \* the same frames delivered to the instance in two ways
  screen,     \* what draw() has put on the display
  twins       \* two more instances, constructed and stepped independently

vars == <<host, v, busFrames, dtc, pc, loc, nBlocks, nChanges, deliveries,
         screen, twins>>

\* parameters[]: the default of every parameter
DefaultParams ==
  [kParamInput |-> 1, kParamOutput |-> 13, kParamOutputMode |-> 1,
   kParamCutoff |-> 1000, kParamResonance |-> 0, kParamMode |-> 0,
   kParamModel |-> 0, kParamCvCutoff |-> 0, kParamCvCutoffAmt |-> 1000,
   kParamCvResonance |-> 0, kParamCvResonanceAmt |-> 1000,
   kParamInputAGR |-> 500, kParamDrive |-> 0, kParamOversample |-> 1]

\* The selector settings a preset can hold.  Mode 4 and Model 3 are outside
\* the declared ranges: a host that does not enforce min and max.
SelectorPresets ==
  {[DefaultParams EXCEPT !.kParamMode = mode, !.kParamModel = model,
                         !.kParamResonance = res]
     : mode \in 0..4, model \in 0..3, res \in {0, 1000}}

\* Presets of the continuous controls, the oversampling and the routing.
ControlPresets ==
  {[DefaultParams EXCEPT !.kParamCutoff = 20, !.kParamOutputMode = 0],
   [DefaultParams EXCEPT !.kParamCutoff = 20000, !.kParamOversample = 0],
   [DefaultParams EXCEPT !.kParamOversample = 2, !.kParamInputAGR = 250],
   [DefaultParams EXCEPT !.kParamOversample = 3, !.kParamInputAGR = 1000,
                         !.kParamDrive = 1000],
   [DefaultParams EXCEPT !.kParamOversample = 4, !.kParamInputAGR = 0,
                         !.kParamMode = 3, !.kParamModel = 1],
   [DefaultParams EXCEPT !.kParamMode = 2, !.kParamModel = 2,
                         !.kParamResonance = 1000, !.kParamDrive = 1000,
                         !.kParamCutoff = 20000, !.kParamOversample = 0],
   [DefaultParams EXCEPT !.kParamCvCutoffAmt = -1000,
                         !.kParamCvResonanceAmt = -1000],
   [DefaultParams EXCEPT !.kParamOutput = 1, !.kParamMode = 4]}

\* Presets that connect bus 2 as a CV input.
CvPresets ==
  {[DefaultParams EXCEPT !.kParamCvCutoff = 2],
   [DefaultParams EXCEPT !.kParamCvCutoff = 2, !.kParamCvCutoffAmt = -1000,
                         !.kParamModel = 1],
   [DefaultParams EXCEPT !.kParamCvResonance = 2],
   [DefaultParams EXCEPT !.kParamCvResonance = 2, !.kParamResonance = 1000,
                         !.kParamCvResonanceAmt = -1000],
   [DefaultParams EXCEPT !.kParamCvCutoff = 2, !.kParamCvResonance = 2,
                         !.kParamMode = 1]}

\* construct(): the DTC after memset, the seed, the smoothed defaults and
\* the initial coefficients.
DEFAULT_OVERSAMPLE == 2
ConstructedDTC ==
  The({ [lp |-> Zero, bp |-> Zero, hp |-> Zero,
         g |-> co.g, k |-> co.k, gInv |-> co.gInv,
         cutoffSmooth |-> Lit(1000, 0), resonanceSmooth |-> Zero,
         driveSmooth |-> One, agrSmooth |-> Lit(50, 0),
         cvCutoffAmtSmooth |-> One, cvResAmtSmooth |-> One,
         randState |-> U32(4660, 22136),
         inputLevel |-> Zero, outputLevel |-> Zero]
        : co \in {calculateFilterCoeffs(Lit(1000, 0), Zero,
                     FMul(FromInt(SampleRate), FromInt(DEFAULT_OVERSAMPLE)))} })

\* The locals of step() outside a call.
NoLocals ==
  [numFrames |-> 0, inBus |-> 0, outBus |-> 0, replace |-> FALSE,
   mode |-> 0, model |-> 0, oversample |-> 0,
   cutoff |-> Zero, resonance |-> Zero, cvRead |-> {},
   resAmt |-> Zero, maxIn |-> Zero, maxOut |-> Zero,
   i |-> 0, os |-> 0, agrGain |-> Zero, input |-> Zero, output |-> Zero,
   coefWrites |-> 0, passes |-> 0]

\* The display before the first draw() call.
NoScreen ==
  [phase |-> "none", modelName |-> "", modeName |-> "", curve |-> <<>>,
   agrZone |-> "", inWidth |-> 0, outWidth |-> 0]

\* ------------------------------------------------------------------------
\* What the host puts on the buses
\* ------------------------------------------------------------------------
AudioKinds == {"silence", "square", "extreme"}
AudioSample(kind, j) ==
  CASE kind = "silence" -> Zero
    [] kind = "square"  -> (IF j % 2 = 1 THEN One ELSE FNeg(One))
    [] kind = "extreme" -> (IF j % 2 = 1 THEN FltMax ELSE FNeg(FltMax))
\* The CV bus holds one value over the block.
CvValues == {Zero, Lit(30, 0), Lit(-30, 0)}
\* What bus 13 holds before step() adds to it or replaces it.
Residue == Lit(25, -2)

HostBuses(kind, cv, numFrames) ==
  [b \in Buses |->
     [j \in 1..numFrames |->
        IF b = 1 THEN AudioSample(kind, j)
        ELSE IF b = 2 THEN cv
        ELSE Residue]]

\* The runs of the host: a signal on the input bus, a value on bus 2 (which
\* only a preset that connects it as a CV input reads) and the preset it
\* switches the parameters to.
HostsOf(selectors) ==
  {[kind |-> kind, cv |-> Lit(30, 0), preset |-> preset]
     : kind \in AudioKinds, preset \in selectors \cup ControlPresets}
  \cup
  {[kind |-> kind, cv |-> cv, preset |-> preset]
     : kind \in AudioKinds, cv \in CvValues, preset \in CvPresets}

\* The runs of Spec: the selector presets at full resonance.
Hosts == HostsOf({p \in SelectorPresets : p.kParamResonance = 1000})


\* ------------------------------------------------------------------------
\* step(), phase by phase
\* ------------------------------------------------------------------------
\* Smoothing with a coefficient above 1.
SmoothOvershooting(stored, target) ==
  FAdd(stored, FMul(FSub(target, stored), Lit(11, -1)))

\* stored += (target - stored) * smoothCoeff
Smooth(stored, target) == FAdd(stored, FMul(FSub(target, stored), smoothCoeff))

\* SmoothControls with the drive target 1 + Drive / 200.
SmoothControlsWideDrive(vv, d) ==
  LET cvCutoffAmtTarget == FDiv(FromInt(vv.kParamCvCutoffAmt), Lit(1000, 0))
      cvResAmtTarget    == FDiv(FromInt(vv.kParamCvResonanceAmt), Lit(1000, 0))
      agrTarget         == FDiv(FromInt(vv.kParamInputAGR), Lit(10, 0))
      driveTarget       == FAdd(One, FDiv(FromInt(vv.kParamDrive), Lit(200, 0)))
  IN  [d EXCEPT !.driveSmooth = Smooth(@, driveTarget),
                !.agrSmooth = Smooth(@, agrTarget),
                !.cvCutoffAmtSmooth = Smooth(@, cvCutoffAmtTarget),
                !.cvResAmtSmooth = Smooth(@, cvResAmtTarget)]

\* The four values smoothed first: drive, AGR and the two CV amounts.
SmoothControls(vv, d) ==
  LET cvCutoffAmtTarget == FDiv(FromInt(vv.kParamCvCutoffAmt), Lit(1000, 0))
      cvResAmtTarget    == FDiv(FromInt(vv.kParamCvResonanceAmt), Lit(1000, 0))
      agrTarget         == FDiv(FromInt(vv.kParamInputAGR), Lit(10, 0))
      driveTarget       == FAdd(One, FDiv(FromInt(vv.kParamDrive), Lit(250, 0)))
  IN  [d EXCEPT !.driveSmooth = Smooth(@, driveTarget),
                !.agrSmooth = Smooth(@, agrTarget),
                !.cvCutoffAmtSmooth = Smooth(@, cvCutoffAmtTarget),
                !.cvResAmtSmooth = Smooth(@, cvResAmtTarget)]

\* CutoffTarget with the bus index not reduced by one and 0 taken for a bus.
CutoffTargetOffByOne(vv, d, bus) ==
  LET baseCutoff == FromInt(vv.kParamCutoff)
      first == IF vv.kParamCvCutoff + 1 \in DOMAIN bus
               THEN bus[vv.kParamCvCutoff + 1][1] ELSE Zero
      cvVal == FMul(first, d.cvCutoffAmtSmooth)
  IN  FMul(baseCutoff, powf2(FMul(cvVal, Lit(5, 0))))

\* The local cutoff: the Cutoff parameter, modulated by the first sample of
\* the CV bus when one is connected.
CutoffTarget(vv, d, bus) ==
  LET baseCutoff == FromInt(vv.kParamCutoff)
  IN  IF vv.kParamCvCutoff > 0
      THEN LET cvVal == FMul(bus[vv.kParamCvCutoff][1], d.cvCutoffAmtSmooth)
           IN  FMul(baseCutoff, powf2(FMul(cvVal, Lit(5, 0))))
      ELSE baseCutoff

\* ResonanceTarget without the clamp.
ResonanceTargetUnclamped(vv, d, bus) ==
  LET baseResonance == FDiv(FromInt(vv.kParamResonance), Lit(1000, 0))
  IN  IF vv.kParamCvResonance > 0
      THEN LET cvVal == FMul(bus[vv.kParamCvResonance][1], d.cvResAmtSmooth)
           IN  FAdd(baseResonance, FMul(cvVal, Lit(5, -1)))
      ELSE baseResonance

\* The local resonance: Resonance / 1000, modulated and clamped to [0, 1]
\* when a CV bus is connected.
ResonanceTarget(vv, d, bus) ==
  LET baseResonance == FDiv(FromInt(vv.kParamResonance), Lit(1000, 0))
  IN  IF vv.kParamCvResonance > 0
      THEN LET cvVal == FMul(bus[vv.kParamCvResonance][1], d.cvResAmtSmooth)
               r     == FAdd(baseResonance, FMul(cvVal, Lit(5, -1)))
               r1    == IF FLt(r, Zero) THEN Zero ELSE r
           IN  IF FGt(r1, One) THEN One ELSE r1
      ELSE baseResonance

\* The CV inputs whose bus step() reads the first sample of.
CvBusesRead(vv) ==
  (IF vv.kParamCvCutoff > 0 THEN {"cvCutoff"} ELSE {})
  \cup (IF vv.kParamCvResonance > 0 THEN {"cvResonance"} ELSE {})

\* StepSetup with the CV modulation ahead of the smoothing of the CV amounts.
StepSetupModulatingFirst(vv, d, bus, numFramesBy4) ==
  LET oversample     == 2 ^ vv.kParamOversample
      oversampleRate == FMul(FromInt(SampleRate), FromInt(oversample))
  IN  The({ The({ The({ The({
        [dtc |-> [d2 EXCEPT !.g = co.g, !.k = co.k, !.gInv = co.gInv],
         loc |-> [NoLocals EXCEPT
                    !.numFrames = numFramesBy4 * 4,
                    !.inBus = vv.kParamInput,
                    !.outBus = vv.kParamOutput,
                    !.replace = (vv.kParamOutputMode # 0),
                    !.mode = vv.kParamMode,
                    !.model = vv.kParamModel,
                    !.oversample = oversample,
                    !.cutoff = cutoff,
                    !.resonance = resonance,
                    !.cvRead = CvBusesRead(vv),
                    !.resAmt = FDiv(FSub(Two, co.k), Lit(19, -1)),
                    !.coefWrites = 1]]
        : co \in {calculateFilterCoeffs(d2.cutoffSmooth, d2.resonanceSmooth,
                                        oversampleRate)} })
        : d2 \in {[d1 EXCEPT !.cutoffSmooth = Smooth(@, cutoff),
                             !.resonanceSmooth = Smooth(@, resonance)]} })
        : cutoff \in {CutoffTarget(vv, d, bus)},
          resonance \in {ResonanceTarget(vv, d, bus)} })
        : d1 \in {SmoothControls(vv, d)} })

\* step() up to the sample loop: the DTC and the locals it leaves.
StepSetup(vv, d, bus, numFramesBy4) ==
  LET oversample     == 2 ^ vv.kParamOversample
      oversampleRate == FMul(FromInt(SampleRate), FromInt(oversample))
  IN  The({ The({ The({ The({
        [dtc |-> [d2 EXCEPT !.g = co.g, !.k = co.k, !.gInv = co.gInv],
         loc |-> [NoLocals EXCEPT
                    !.numFrames = numFramesBy4 * 4,
                    !.inBus = vv.kParamInput,
                    !.outBus = vv.kParamOutput,
                    !.replace = (vv.kParamOutputMode # 0),
                    !.mode = vv.kParamMode,
                    !.model = vv.kParamModel,
                    !.oversample = oversample,
                    !.cutoff = cutoff,
                    !.resonance = resonance,
                    !.cvRead = CvBusesRead(vv),
                    !.resAmt = FDiv(FSub(Two, co.k), Lit(19, -1)),
                    !.coefWrites = 1]]
        : co \in {calculateFilterCoeffs(d2.cutoffSmooth, d2.resonanceSmooth,
                                        oversampleRate)} })
        : d2 \in {[d1 EXCEPT !.cutoffSmooth = Smooth(@, cutoff),
                             !.resonanceSmooth = Smooth(@, resonance)]} })
        : cutoff \in {CutoffTarget(vv, d1, bus)},
          resonance \in {ResonanceTarget(vv, d1, bus)} })
        : d1 \in {SmoothControls(vv, d)} })

\* SampleStart that also recomputes the coefficients, at the host rate.
SampleStartRecalc(d, l, bus) ==
  The({ The({
    [dtc |-> [d EXCEPT !.randState = agr.randState,
                       !.g = co.g, !.k = co.k, !.gInv = co.gInv],
     loc |-> [l EXCEPT !.agrGain = agr.gain,
                       !.input = input,
                       !.maxIn = IF FGt(FAbs(input), @) THEN FAbs(input) ELSE @,
                       !.output = Zero,
                       !.os = 0,
                       !.coefWrites = @ + 1]]
    : input \in {FMul(FMul(bus[l.inBus][l.i + 1], agr.gain), d.driveSmooth)},
      co \in {calculateFilterCoeffs(d.cutoffSmooth, d.resonanceSmooth,
                                    FromInt(SampleRate))} })
    : agr \in {processAGR(ToInt(d.agrSmooth), d.randState)} })

\* SampleStart with the smoothed AGR value rounded to the nearest integer.
SampleStartRounding(d, l, bus) ==
  The({ The({
    [dtc |-> [d EXCEPT !.randState = agr.randState],
     loc |-> [l EXCEPT !.agrGain = agr.gain,
                       !.input = input,
                       !.maxIn = IF FGt(FAbs(input), @) THEN FAbs(input) ELSE @,
                       !.output = Zero,
                       !.os = 0]]
    : input \in {FMul(FMul(bus[l.inBus][l.i + 1], agr.gain), d.driveSmooth)} })
    : agr \in {processAGR(ToInt(FAdd(d.agrSmooth, Lit(5, -1))), d.randState)} })

\* SampleStart that scales the input by the input level meter.
SampleStartMetered(d, l, bus) ==
  The({ The({
    [dtc |-> [d EXCEPT !.randState = agr.randState],
     loc |-> [l EXCEPT !.agrGain = agr.gain,
                       !.input = input,
                       !.maxIn = IF FGt(FAbs(input), @) THEN FAbs(input) ELSE @,
                       !.output = Zero,
                       !.os = 0]]
    : input \in {FMul(FMul(FMul(bus[l.inBus][l.i + 1], agr.gain), d.driveSmooth),
                      FAdd(One, d.inputLevel))} })
    : agr \in {processAGR(ToInt(d.agrSmooth), d.randState)} })

\* The head of one iteration of the sample loop: AGR, drive, input level.
SampleStart(d, l, bus) ==
  The({ The({
    [dtc |-> [d EXCEPT !.randState = agr.randState],
     loc |-> [l EXCEPT !.agrGain = agr.gain,
                       !.input = input,
                       !.maxIn = IF FGt(FAbs(input), @) THEN FAbs(input) ELSE @,
                       !.output = Zero,
                       !.os = 0]]
    : input \in {FMul(FMul(bus[l.inBus][l.i + 1], agr.gain), d.driveSmooth)} })
    : agr \in {processAGR(ToInt(d.agrSmooth), d.randState)} })

\* The saturated input u of a pass.
PreSaturate(model, input, resAmt) ==
  CASE model = 0 -> fastTanh(FMul(input, FAdd(One, resAmt)))
    [] model = 1 -> diodeClip(FMul(input, FAdd(One, FMul(resAmt, Lit(5, -1)))))
    [] model = 2 -> aggressiveSat(FMul(input, FAdd(One, FMul(resAmt, Two))))
    [] OTHER     -> fastTanh(input)

\* What a pass adds to the output sum.
ModeOutput(mode, lp, bp, hp) ==
  CASE mode = 0 -> lp
    [] mode = 1 -> bp
    [] mode = 2 -> hp
    [] mode = 3 -> FSub(lp, hp)

\* The modes the switch statement has a case for.
HasModeCase(mode) == mode \in {0, 1, 2, 3}

\* InnerPass without the soft clamp of bp and lp.
InnerPassUnclamped(d, l) ==
  The({ The({ The({
    [dtc |-> [d EXCEPT !.bp = sanitize(bp), !.lp = sanitize(lp),
                       !.hp = sanitize(hp)],
     loc |-> [l EXCEPT !.output = IF HasModeCase(l.mode)
                                  THEN FAdd(@, ModeOutput(l.mode, lp, bp, hp))
                                  ELSE @,
                       !.os = @ + 1,
                       !.passes = @ + 1]]
    : bp \in {FAdd(FMul(d.g, hp), d.bp)},
      lp \in {FAdd(FMul(d.g, FAdd(FMul(d.g, hp), d.bp)), d.lp)} })
    : hp \in {FMul(FSub(FSub(u, FMul(d.k, d.bp)), d.lp), d.gInv)} })
    : u \in {PreSaturate(l.model, l.input, l.resAmt)} })

\* One pass of the oversampling loop.
InnerPass(d, l) ==
  The({ The({ The({ The({
    [dtc |-> [d EXCEPT !.bp = sanitize(bp), !.lp = sanitize(lp),
                       !.hp = sanitize(hp)],
     loc |-> [l EXCEPT !.output = IF HasModeCase(l.mode)
                                  THEN FAdd(@, ModeOutput(l.mode, lp, bp, hp))
                                  ELSE @,
                       !.os = @ + 1,
                       !.passes = @ + 1]]
    : bp \in {softClamp(bp0, Lit(5, 0))},
      lp \in {softClamp(FAdd(FMul(d.g, bp0), d.lp), Lit(5, 0))} })
    : bp0 \in {FAdd(FMul(d.g, hp), d.bp)} })
    : hp \in {FMul(FSub(FSub(u, FMul(d.k, d.bp)), d.lp), d.gInv)} })
    : u \in {PreSaturate(l.model, l.input, l.resAmt)} })

\* The output-stage saturation.
PostSaturate(model, x) ==
  CASE model = 0 -> fastTanh(x)
    [] model = 1 -> diodeClip(x)
    [] model = 2 -> aggressiveSat(x)
    [] OTHER     -> fastTanh(x)

\* OutputSample without the sanitize of the average.
OutputSampleRaw(model, sum, oversample) ==
  PostSaturate(model, FDiv(sum, FromInt(oversample)))

\* OutputSample without the division by the number of passes.
OutputSampleOfSum(model, sum, oversample) ==
  PostSaturate(model, sanitize(sum))

\* The output sample from the sum of the passes.
OutputSample(model, sum, oversample) ==
  PostSaturate(model, sanitize(FDiv(sum, FromInt(oversample))))

\* SampleFinish that overwrites out[i] whatever the output-mode flag.
SampleFinishReplacing(l, bus) ==
  The({ [loc |-> [l EXCEPT !.output = output,
                           !.maxOut = IF FGt(FAbs(output), @) THEN FAbs(output) ELSE @,
                           !.i = @ + 1],
         bus |-> [bus EXCEPT ![l.outBus][l.i + 1] = output]]
        : output \in {OutputSample(l.model, l.output, l.oversample)} })

\* The tail of one iteration of the sample loop: the output sample, the
\* output level and the write to the output bus.
SampleFinish(l, bus) ==
  The({ [loc |-> [l EXCEPT !.output = output,
                           !.maxOut = IF FGt(FAbs(output), @) THEN FAbs(output) ELSE @,
                           !.i = @ + 1],
         bus |-> [bus EXCEPT ![l.outBus][l.i + 1] =
                    IF l.replace THEN output ELSE FAdd(@, output)]]
        : output \in {OutputSample(l.model, l.output, l.oversample)} })

\* StoreLevels with the input level written over lp.
StoreLevelsOverLp(d, l) ==
  [d EXCEPT
     !.lp          = FAdd(FMul(@, Lit(95, -2)), FMul(l.maxIn, Lit(5, -2))),
     !.outputLevel = FAdd(FMul(@, Lit(95, -2)), FMul(l.maxOut, Lit(5, -2)))]

\* The level meters, after the loop.
StoreLevels(d, l) ==
  [d EXCEPT
     !.inputLevel  = FAdd(FMul(@, Lit(95, -2)), FMul(l.maxIn, Lit(5, -2))),
     !.outputLevel = FAdd(FMul(@, Lit(95, -2)), FMul(l.maxOut, Lit(5, -2)))]

\* The oversampling loop of one sample, from pass l.os on.
RECURSIVE RunPasses(_, _)
RunPasses(d, l) ==
  IF l.os < l.oversample
  THEN The({ RunPasses(r.dtc, r.loc) : r \in {InnerPass(d, l)} })
  ELSE [dtc |-> d, loc |-> l]

\* One iteration of the sample loop.
RunSample(d, l, bus) ==
  The({ The({ [dtc |-> p.dtc, loc |-> f.loc, bus |-> f.bus]
              : f \in {SampleFinish(p.loc, bus)} })
        : p \in { RunPasses(s.dtc, s.loc) : s \in {SampleStart(d, l, bus)} } })

\* The sample loop, from sample l.i on.
RECURSIVE RunSamples(_, _, _)
RunSamples(d, l, bus) ==
  IF l.i < l.numFrames
  THEN The({ RunSamples(r.dtc, r.loc, r.bus) : r \in {RunSample(d, l, bus)} })
  ELSE [dtc |-> d, loc |-> l, bus |-> bus]

\* A whole step() call: the DTC and the buses it leaves.
RunStep(vv, d, bus, numFramesBy4) ==
  The({ [dtc |-> StoreLevels(r.dtc, r.loc), bus |-> r.bus]
        : r \in { RunSamples(s.dtc, s.loc, bus)
                  : s \in {StepSetup(vv, d, bus, numFramesBy4)} } })

\* ------------------------------------------------------------------------
\* Actions
\* ------------------------------------------------------------------------
Init ==
  /\ host \in Hosts
  /\ v = DefaultParams
  /\ busFrames = [b \in Buses |-> <<>>]
  /\ dtc = ConstructedDTC
  /\ pc = "idle"
  /\ loc = NoLocals
  /\ nBlocks = 0
  /\ nChanges = 0
  /\ deliveries = <<>>
  /\ screen = NoScreen
  /\ twins = <<>>

\* parameterChanged with an eager reset of the filter state.
parameterChangedReset(d, p) == [d EXCEPT !.lp = Zero, !.bp = Zero, !.hp = Zero]

\* parameterChanged(self, p): the DTC it leaves.  Both arguments are unused.
parameterChanged(d, p) == d

\* The DTC after the notifications of the parameters ps, one call each.
RECURSIVE Notify(_, _)
Notify(d, ps) ==
  IF ps = {} THEN d
  ELSE The({ Notify(parameterChanged(d, p), ps \ {p})
             : p \in {CHOOSE q \in ps : TRUE} })

\* Between two step() calls the host sets the parameters that differ to the
\* values of its preset, or back to their defaults, and notifies the
\* instance of each.
SetParameter ==
  /\ pc = "idle"
  /\ nChanges < MaxChanges
  /\ host.preset # DefaultParams
  /\ v' = IF v = DefaultParams THEN host.preset ELSE DefaultParams
  /\ dtc' = Notify(dtc, {p \in DOMAIN v : v'[p] # v[p]})
  /\ nChanges' = nChanges + 1
  /\ UNCHANGED <<host, busFrames, pc, loc, nBlocks, deliveries, screen, twins>>

\* The host fills the buses and calls step(); step() runs to its loop.
StepBegin ==
  /\ pc = "idle"
  /\ nBlocks < MaxBlocks
  /\ \E numFramesBy4 \in 1..MaxFramesBy4 :
       \E bus \in {HostBuses(host.kind, host.cv, numFramesBy4 * 4)} :
         \E r \in {StepSetup(v, dtc, bus, numFramesBy4)} :
           /\ busFrames' = bus
           /\ dtc' = r.dtc
           /\ loc' = r.loc
  /\ pc' = "sample"
  /\ nBlocks' = nBlocks + 1
  /\ UNCHANGED <<host, v, nChanges, deliveries, screen, twins>>

SampleBegin ==
  /\ pc = "sample"
  /\ \E r \in {SampleStart(dtc, loc, busFrames)} :
       dtc' = r.dtc /\ loc' = r.loc
  /\ pc' = "pass"
  /\ UNCHANGED <<host, v, busFrames, nBlocks, nChanges, deliveries, screen, twins>>

Pass ==
  /\ pc = "pass"
  /\ \E r \in {InnerPass(dtc, loc)} :
       /\ dtc' = r.dtc
       /\ loc' = r.loc
       /\ pc' = IF r.loc.os < loc.oversample THEN "pass" ELSE "finish"
  /\ UNCHANGED <<host, v, busFrames, nBlocks, nChanges, deliveries, screen, twins>>

SampleEnd ==
  /\ pc = "finish"
  /\ \E r \in {SampleFinish(loc, busFrames)} :
       /\ loc' = r.loc
       /\ busFrames' = r.bus
       /\ pc' = IF r.loc.i < loc.numFrames THEN "sample" ELSE "meters"
  /\ UNCHANGED <<host, v, dtc, nBlocks, nChanges, deliveries, screen, twins>>

StepEnd ==
  /\ pc = "meters"
  /\ dtc' = StoreLevels(dtc, loc)
  /\ loc' = NoLocals
  /\ pc' = "idle"
  /\ UNCHANGED <<host, v, busFrames, nBlocks, nChanges, deliveries, screen, twins>>

Next ==
  \/ SetParameter
  \/ StepBegin
  \/ SampleBegin
  \/ Pass
  \/ SampleEnd
  \/ StepEnd

Spec == Init /\ [][Next]_vars

\* ------------------------------------------------------------------------
\* calculateFilterCoeffs on its own: a DTC whose smoothed cutoff and
\* resonance are drawn from a grid, and the call step() makes on it.
\* ------------------------------------------------------------------------
CutoffGrid ==
  {Lit(20, 0), Lit(21, 0), Lit(100, 0), Lit(440, 0), Lit(1000, 0),
   Lit(5000, 0), Lit(10000, 0), Lit(20000, 0), Lit(21600, 0), Lit(43200, 0),
   Lit(86400, 0), Lit(172800, 0), Lit(345600, 0), Lit(19, 0), Lit(1, 6)}
ResonanceGrid ==
  {Zero, Lit(1, -1), Lit(25, -2), Lit(5, -1), Lit(75, -2), Lit(9, -1),
   Lit(999, -3), One}

InitCoeffs ==
  /\ host = [kind |-> "silence", cv |-> Zero, preset |-> DefaultParams]
  /\ \E p \in 0..4 : v = [DefaultParams EXCEPT !.kParamOversample = p]
  /\ busFrames = [b \in Buses |-> <<>>]
  /\ \E c \in CutoffGrid, r \in ResonanceGrid :
       dtc = [ConstructedDTC EXCEPT !.cutoffSmooth = c, !.resonanceSmooth = r]
  /\ pc = "coeffs"
  /\ loc = NoLocals
  /\ nBlocks = 0
  /\ nChanges = 0
  /\ deliveries = <<>>
  /\ screen = NoScreen
  /\ twins = <<>>

\* The effective rate of a step() call with the parameters vv.
EffectiveRate(vv) == FMul(FromInt(SampleRate), FromInt(2 ^ vv.kParamOversample))

\* calculateFilterCoeffs(dtc, dtc->cutoffSmooth, dtc->resonanceSmooth, rate)
Recalculate ==
  /\ pc = "coeffs"
  /\ \E co \in {calculateFilterCoeffs(dtc.cutoffSmooth, dtc.resonanceSmooth,
                                       EffectiveRate(v))} :
       dtc' = [dtc EXCEPT !.g = co.g, !.k = co.k, !.gInv = co.gInv]
  /\ pc' = "stored"
  /\ UNCHANGED <<host, v, busFrames, loc, nBlocks, nChanges, deliveries, screen, twins>>

SpecCoeffs == InitCoeffs /\ [][Recalculate]_vars

\* ------------------------------------------------------------------------
\* processAGR on its own: a DTC whose smoothed AGR value and random state
\* are drawn from a grid, and the call step() makes on it for one sample.
\* ------------------------------------------------------------------------
AgrValues == 0..100
RandStates ==
  {U32(4660, 22136), xorshift(U32(4660, 22136)), U32(0, 1), U32(32768, 0),
   U32(65535, 65535), U32(0, 0)}

InitAGR ==
  /\ host = [kind |-> "silence", cv |-> Zero, preset |-> DefaultParams]
  /\ v = DefaultParams
  /\ busFrames = [b \in Buses |-> <<>>]
  /\ \E a \in AgrValues, rs \in RandStates :
       dtc = [ConstructedDTC EXCEPT !.agrSmooth = FromInt(a), !.randState = rs]
  /\ pc = "agr"
  /\ loc = NoLocals
  /\ nBlocks = 0
  /\ nChanges = 0
  /\ deliveries = <<>>
  /\ screen = NoScreen
  /\ twins = <<>>

\* float agrGain = processAGR((int)dtc->agrSmooth, dtc->randState)
ApplyAGR ==
  /\ pc = "agr"
  /\ \E agr \in {processAGR(ToInt(dtc.agrSmooth), dtc.randState)} :
       /\ dtc' = [dtc EXCEPT !.randState = agr.randState]
       /\ loc' = [loc EXCEPT !.agrGain = agr.gain]
  /\ pc' = "gained"
  /\ UNCHANGED <<host, v, busFrames, nBlocks, nChanges, deliveries, screen, twins>>

SpecAGR == InitAGR /\ [][ApplyAGR]_vars

\* The return value of the second branch of processAGR.
AttenuationGain(agrValue) ==
  FAdd(Lit(5, -1), FMul(FDiv(FromInt(agrValue - 25), Lit(25, 0)), Lit(5, -1)))
\* The return value of the third branch of processAGR.
AmplificationGain(agrValue) ==
  FAdd(One, FMul(FDiv(FromInt(agrValue - 50), Lit(50, 0)), Lit(3, 0)))

\* ------------------------------------------------------------------------
\* The saturation functions and sanitize on their own: an argument drawn
\* from a grid of floats, and one call of one of the functions on it.  The
\* grid holds every float between 0.1 and 10 in magnitude, floats of every
\* other decade, the zero, the infinities and NaN.
\* ------------------------------------------------------------------------
GridMantissas ==
  {1000, 1001, 1234, 1733, 2000, 2999, 3000, 3001, 5000, 8664, 9999}

Floats ==
  {<<sg * m, e>> : sg \in {-1, 1}, m \in MantLo..MantHi, e \in {-1, 0}}
    \cup {<<sg * m, e>> : sg \in {-1, 1}, m \in GridMantissas, e \in MinExp + 1..MaxExp - 1}
    \cup {Zero, NaN, PosInf, NegInf, FltMax, FNeg(FltMax)}

InitSaturate ==
  /\ host = [kind |-> "silence", cv |-> Zero, preset |-> DefaultParams]
  /\ v = DefaultParams
  /\ busFrames = [b \in Buses |-> <<>>]
  /\ dtc = ConstructedDTC
  /\ pc = "argument"
  /\ \E x \in Floats : loc = [NoLocals EXCEPT !.input = x]
  /\ nBlocks = 0
  /\ nChanges = 0
  /\ deliveries = <<>>
  /\ screen = NoScreen
  /\ twins = <<>>

CallFastTanh ==
  /\ pc = "argument"
  /\ loc' = [loc EXCEPT !.output = fastTanh(loc.input)]
  /\ pc' = "fastTanh"
  /\ UNCHANGED <<host, v, busFrames, dtc, nBlocks, nChanges, deliveries, screen, twins>>

CallDiodeClip ==
  /\ pc = "argument"
  /\ loc' = [loc EXCEPT !.output = diodeClip(loc.input)]
  /\ pc' = "diodeClip"
  /\ UNCHANGED <<host, v, busFrames, dtc, nBlocks, nChanges, deliveries, screen, twins>>

CallAggressiveSat ==
  /\ pc = "argument"
  /\ loc' = [loc EXCEPT !.output = aggressiveSat(loc.input)]
  /\ pc' = "aggressiveSat"
  /\ UNCHANGED <<host, v, busFrames, dtc, nBlocks, nChanges, deliveries, screen, twins>>

\* sanitize of the argument, and sanitize of what sanitize returned.
CallSanitize ==
  /\ pc \in {"argument", "sanitize"}
  /\ loc' = [loc EXCEPT !.output = sanitize(IF pc = "argument" THEN loc.input
                                            ELSE loc.output)]
  /\ pc' = IF pc = "argument" THEN "sanitize" ELSE "sanitize again"
  /\ UNCHANGED <<host, v, busFrames, dtc, nBlocks, nChanges, deliveries, screen, twins>>

NextSaturate == CallFastTanh \/ CallDiodeClip \/ CallAggressiveSat \/ CallSanitize

SpecSaturate == InitSaturate /\ [][NextSaturate]_vars

\* ------------------------------------------------------------------------
\* Block sizes: the same frames given to the instance as one step() call
\* and, from the same state, as two consecutive step() calls.
\* ------------------------------------------------------------------------
\* Frames from + 1 .. from + n of every bus.
Slice(bus, from, n) == [b \in Buses |-> [j \in 1..n |-> bus[b][from + j]]]

\* One step() call of numFramesBy4 * 4 frames: the DTC it leaves and the
\* frames of the output bus.
WholeRun(vv, d, bus, numFramesBy4) ==
  The({ [dtc |-> r.dtc, out |-> r.bus[vv.kParamOutput]]
        : r \in {RunStep(vv, d, bus, numFramesBy4)} })

\* The same frames delivered in two consecutive step() calls of a * 4 and
\* b * 4 frames.
SplitRun(vv, d, bus, a, b) ==
  The({ The({ [dtc |-> second.dtc,
               out |-> first.bus[vv.kParamOutput] \o second.bus[vv.kParamOutput]]
              : second \in {RunStep(vv, first.dtc, Slice(bus, a * 4, b * 4), b)} })
        : first \in {RunStep(vv, d, Slice(bus, 0, a * 4), a)} })

\* The DTC without the level meters.
FilterState(d) == [d EXCEPT !.inputLevel = Zero, !.outputLevel = Zero]

SmoothedFields ==
  {"cutoffSmooth", "resonanceSmooth", "driveSmooth", "agrSmooth",
   "cvCutoffAmtSmooth", "cvResAmtSmooth"}

\* Every smoothed value has reached its target: the smoothing of a step()
\* call on these buses leaves all six as they are.
Settled(vv, d, bus) ==
  \E r \in {StepSetup(vv, d, bus, 1)} :
    \A f \in SmoothedFields : r.dtc[f] = d[f]

InitSplit ==
  /\ host \in {h \in HostsOf(SelectorPresets) : h.kind # "silence"}
  /\ v = host.preset
  /\ busFrames = [b \in Buses |-> <<>>]
  /\ dtc = ConstructedDTC
  /\ pc = "idle"
  /\ loc = NoLocals
  /\ nBlocks = 0
  /\ nChanges = 0
  /\ deliveries = <<>>
  /\ screen = NoScreen
  /\ twins = <<>>

\* A step() call of four frames, from its first statement to its last.
WarmUp ==
  /\ pc = "idle"
  /\ nBlocks < MaxWarmUps
  /\ \E r \in {RunStep(v, dtc, HostBuses(host.kind, host.cv, 4), 1)} :
       dtc' = r.dtc /\ busFrames' = r.bus
  /\ nBlocks' = nBlocks + 1
  /\ UNCHANGED <<host, v, pc, loc, nChanges, deliveries, screen, twins>>

\* (a + b) * 4 frames delivered as one block, and as one of a * 4 and one of
\* b * 4 frames.
Deliver ==
  /\ pc = "idle"
  /\ \E a, b \in 1..MaxFramesBy4 :
       \E bus \in {HostBuses(host.kind, host.cv, (a + b) * 4)} :
         \E whole \in {WholeRun(v, dtc, bus, a + b)} :
           /\ deliveries' = [settled |-> Settled(v, dtc, bus),
                             whole |-> whole,
                             split |-> SplitRun(v, dtc, bus, a, b)]
           /\ dtc' = whole.dtc
           /\ busFrames' = bus
  /\ pc' = "delivered"
  /\ UNCHANGED <<host, v, loc, nBlocks, nChanges, screen, twins>>

NextSplit == WarmUp \/ Deliver

SpecSplit == InitSplit /\ [][NextSplit]_vars


\* ------------------------------------------------------------------------
\* draw(), between whole step() calls.  step() runs from the audio interrupt
\* and pre-empts draw(), never the reverse: a step() call falls before
\* draw(), after it, or between two of its reads.
\* ------------------------------------------------------------------------
modelNames == <<"YU", "MS", "XX">>
modeNames == <<"LP", "BP", "HP", "AP">>
\* What an element read past the end of one of the two arrays can point to:
\* the text of the object that follows it in the frame, or no text at all.
StrayTexts == {"LP", "?"}
\* names[index] of a C array.
NameAt(names, index) ==
  IF index + 1 \in DOMAIN names THEN {names[index + 1]} ELSE StrayTexts

\* agrZone of draw(): from the raw control, not from agrSmooth.
AgrZone(vv) ==
  The({ IF FLe(agrValue, Lit(25, 0)) THEN "RND"
        ELSE IF FLe(agrValue, Lit(50, 0)) THEN "ATN"
        ELSE "AMP"
        : agrValue \in {FDiv(FromInt(vv.kParamInputAGR), Lit(10, 0))} })

INT_MIN == -2147483647 - 1
\* int w = (int)(level * 50.0f); if (w > 50) w = 50;  The conversion of a
\* NaN, an infinity or a value outside the range of int is undefined: the
\* hardware gives INT_MAX, 0 or INT_MIN.
MeterWidth(level) ==
  The({ IF IsFinite(x) /\ FLt(FAbs(x), Lit(2147, 6))
        THEN {IF ToInt(x) > 50 THEN 50 ELSE ToInt(x)}
        ELSE {50, 0, INT_MIN}
        : x \in {FMul(level, Lit(50, 0))} })

\* draw() up to and including its read of inputLevel.  The response curve
\* is a function of the three parameters recorded as curve.
DrawBegin ==
  /\ pc = "idle"
  /\ screen.phase # "levels"
  /\ \E mn \in NameAt(modelNames, v.kParamModel),
        md \in NameAt(modeNames, v.kParamMode),
        w \in MeterWidth(dtc.inputLevel) :
       screen' = [phase |-> "levels", modelName |-> mn, modeName |-> md,
                  curve |-> <<v.kParamCutoff, v.kParamResonance, v.kParamMode>>,
                  agrZone |-> AgrZone(v), inWidth |-> w, outWidth |-> 0]
  /\ UNCHANGED <<host, v, busFrames, dtc, pc, loc, nBlocks, nChanges, deliveries,
                 twins>>

\* The rest of draw(): its read of outputLevel and the two meters.
DrawEnd ==
  /\ pc = "idle"
  /\ screen.phase = "levels"
  /\ \E w \in MeterWidth(dtc.outputLevel) :
       screen' = [screen EXCEPT !.phase = "done", !.outWidth = w]
  /\ UNCHANGED <<host, v, busFrames, dtc, pc, loc, nBlocks, nChanges, deliveries,
                 twins>>

NextDisplay == SetParameter \/ WarmUp \/ DrawBegin \/ DrawEnd

\* The runs of SpecDisplay: the presets of the continuous controls and the
\* selectors outside their ranges, on a signal that is not silent.
InitDisplay ==
  /\ Init
  /\ host.kind # "silence"
  /\ \/ host.preset \in ControlPresets
     \/ host.preset.kParamMode = 4 /\ host.preset.kParamModel = 3

SpecDisplay == InitDisplay /\ [][NextDisplay]_vars


\* ------------------------------------------------------------------------
\* Two instances, each constructed by its own construct() call and stepped
\* by its own step() calls on the same frames with the same parameters.  The
\* calls of the two are interleaved freely, one sample at a time.
\* ------------------------------------------------------------------------
\* step() calls of each of the two instances
MaxTwinBlocks == 8

\* construct() that seeds the random state from the instance.
constructSeeded(k) == [ConstructedDTC EXCEPT !.randState = U32(4660, 22136 + k)]

\* The DTC construct() leaves for the k-th instance: the memory differs,
\* what is written to it does not.
construct(k) == ConstructedDTC

\* Presets with the AGR control in its randomization zone.
TwinPresets ==
  {[DefaultParams EXCEPT !.kParamInputAGR = 0],
   [DefaultParams EXCEPT !.kParamInputAGR = 0, !.kParamModel = 2,
                         !.kParamDrive = 1000, !.kParamOversample = 0],
   [DefaultParams EXCEPT !.kParamInputAGR = 250, !.kParamModel = 1,
                         !.kParamMode = 1, !.kParamOversample = 2]}

InitTwins ==
  /\ host \in {[kind |-> kind, cv |-> Zero, preset |-> preset]
                : kind \in {"square", "extreme"}, preset \in TwinPresets}
  /\ v = host.preset
  /\ busFrames = [b \in Buses |-> <<>>]
  /\ dtc = ConstructedDTC
  /\ pc = "idle"
  /\ loc = NoLocals
  /\ nBlocks = 0
  /\ nChanges = 0
  /\ deliveries = <<>>
  /\ screen = NoScreen
  /\ twins = [k \in {1, 2} |->
                [dtc |-> construct(k), loc |-> NoLocals,
                 bus |-> [b \in Buses |-> <<>>], pc |-> "idle", n |-> 0]]

\* The host fills the buses of instance k and calls its step(), which runs
\* to its sample loop.
TwinBegin(k) ==
  /\ twins[k].pc = "idle"
  /\ twins[k].n < MaxTwinBlocks
  /\ \E bus \in {HostBuses(host.kind, host.cv, 4)} :
       \E r \in {StepSetup(v, twins[k].dtc, bus, 1)} :
         twins' = [twins EXCEPT ![k] = [dtc |-> r.dtc, loc |-> r.loc, bus |-> bus,
                                        pc |-> "sample", n |-> @.n + 1]]
  /\ UNCHANGED <<host, v, busFrames, dtc, pc, loc, nBlocks, nChanges, deliveries,
                 screen>>

\* One iteration of the sample loop of instance k.
TwinSample(k) ==
  /\ twins[k].pc = "sample"
  /\ \E r \in {RunSample(twins[k].dtc, twins[k].loc, twins[k].bus)} :
       twins' = [twins EXCEPT ![k] =
                   [dtc |-> r.dtc, loc |-> r.loc, bus |-> r.bus,
                    pc |-> IF r.loc.i < r.loc.numFrames THEN "sample" ELSE "meters",
                    n |-> @.n]]
  /\ UNCHANGED <<host, v, busFrames, dtc, pc, loc, nBlocks, nChanges, deliveries,
                 screen>>

\* The end of the step() call of instance k.
TwinEnd(k) ==
  /\ twins[k].pc = "meters"
  /\ twins' = [twins EXCEPT ![k].dtc = StoreLevels(@, twins[k].loc),
                             ![k].loc = NoLocals,
                             ![k].pc = "idle"]
  /\ UNCHANGED <<host, v, busFrames, dtc, pc, loc, nBlocks, nChanges, deliveries,
                 screen>>

NextTwins == \E k \in {1, 2} : TwinBegin(k) \/ TwinSample(k) \/ TwinEnd(k)

SpecTwins == InitTwins /\ [][NextTwins]_vars

\* The two instances are at the same point of the same step() call.
TwinsAligned ==
  /\ twins[1].n = twins[2].n
  /\ twins[1].pc = twins[2].pc
  /\ twins[1].loc.i = twins[2].loc.i


\* ------------------------------------------------------------------------
\* A long run with the parameters held: the host sets a preset before the
\* first step() call and never changes it.
\* ------------------------------------------------------------------------
\* step() calls of a run with the parameters held
MaxSettleBlocks == 70

SettlePresets ==
  {[DefaultParams EXCEPT !.kParamDrive = 1000, !.kParamInputAGR = 1000,
                         !.kParamOversample = 0],
   [DefaultParams EXCEPT !.kParamDrive = 1000, !.kParamModel = 2,
                         !.kParamMode = 2, !.kParamResonance = 1000,
                         !.kParamCutoff = 20000, !.kParamOversample = 0],
   [DefaultParams EXCEPT !.kParamDrive = 1000, !.kParamModel = 1,
                         !.kParamInputAGR = 0, !.kParamCutoff = 20,
                         !.kParamCvCutoffAmt = -1000,
                         !.kParamCvResonanceAmt = 300],
   [DefaultParams EXCEPT !.kParamDrive = 700, !.kParamInputAGR = 333,
                         !.kParamResonance = 700]}

SettleCvPresets ==
  {[DefaultParams EXCEPT !.kParamDrive = 1000, !.kParamCvCutoff = 2,
                         !.kParamCvResonance = 2, !.kParamCvCutoffAmt = 500,
                         !.kParamCvResonanceAmt = -500, !.kParamOversample = 0]}

SettleHosts ==
  {[kind |-> kind, cv |-> Zero, preset |-> preset]
     : kind \in {"square", "extreme"}, preset \in SettlePresets}
  \cup
  {[kind |-> "square", cv |-> cv, preset |-> preset]
     : cv \in {Lit(5, -1), Lit(30, 0)}, preset \in SettleCvPresets}

InitSettle ==
  /\ host \in SettleHosts
  /\ v = host.preset
  /\ busFrames = [b \in Buses |-> <<>>]
  /\ dtc = ConstructedDTC
  /\ pc = "idle"
  /\ loc = NoLocals
  /\ nBlocks = 0
  /\ nChanges = 0
  /\ deliveries = <<>>
  /\ screen = NoScreen
  /\ twins = <<>>

\* The host fills the buses with four frames and calls step(); step() runs
\* to its loop.
SettleBegin ==
  /\ pc = "idle"
  /\ nBlocks < MaxSettleBlocks
  /\ \E bus \in {HostBuses(host.kind, host.cv, 4)} :
       \E r \in {StepSetup(v, dtc, bus, 1)} :
         /\ busFrames' = bus
         /\ dtc' = r.dtc
         /\ loc' = r.loc
  /\ pc' = "sample"
  /\ nBlocks' = nBlocks + 1
  /\ UNCHANGED <<host, v, nChanges, deliveries, screen, twins>>

NextSettle ==
  \/ SettleBegin
  \/ SampleBegin
  \/ Pass
  \/ SampleEnd
  \/ StepEnd

SpecSettle == InitSettle /\ [][NextSettle]_vars

\* The position of the run moves on: a step() call is entered, reaches its
\* loop, its next sample or its end.
Advance ==
  /\ pc # "idle" \/ nBlocks < MaxSettleBlocks
  /\ pc' \in {"idle", "sample", "pass", "finish", "meters"}
  /\ nBlocks' \in {nBlocks, nBlocks + 1}
  /\ <<pc, nBlocks>>' # <<pc, nBlocks>>

\* The host keeps calling step(), and a step() call runs to its end.
FairSpecSettle == SpecSettle /\ WF_<<pc, nBlocks>>(Advance)

\* The targets of the four controls that are smoothed first.
ControlTarget(vv, f) ==
  CASE f = "driveSmooth" -> FAdd(One, FDiv(FromInt(vv.kParamDrive), Lit(250, 0)))
    [] f = "agrSmooth" -> FDiv(FromInt(vv.kParamInputAGR), Lit(10, 0))
    [] f = "cvCutoffAmtSmooth" -> FDiv(FromInt(vv.kParamCvCutoffAmt), Lit(1000, 0))
    [] f = "cvResAmtSmooth" -> FDiv(FromInt(vv.kParamCvResonanceAmt), Lit(1000, 0))

\* The target each smoothed value was moved toward by the step() call in
\* progress.
StepTarget(f) ==
  IF f = "cutoffSmooth" THEN loc.cutoff
  ELSE IF f = "resonanceSmooth" THEN loc.resonance
  ELSE ControlTarget(v, f)

\* A step in which step() is entered, and the target each smoothed value is
\* moved toward in it.
Calling == pc = "idle" /\ pc' = "sample"
CallTarget(f) ==
  IF f = "cutoffSmooth" THEN loc'.cutoff
  ELSE IF f = "resonanceSmooth" THEN loc'.resonance
  ELSE ControlTarget(v, f)

\* The bound of each model's saturation on an output sample.
WithinModelBound(model, output) ==
  CASE model = 0 -> FLe(FAbs(output), One)
    [] model = 1 -> FGt(output, Lit(-5, -1)) /\ FLt(output, One)
    [] model = 2 -> FLe(FAbs(output), Lit(8, -1))


\* ------------------------------------------------------------------------
\* The random generator on its own: the random state construct() leaves,
\* and fastRandom called on it again and again.
\* ------------------------------------------------------------------------
\* fastRandom calls of a run
MaxRandomCalls == 300

InitRandom ==
  /\ host = [kind |-> "silence", cv |-> Zero, preset |-> DefaultParams]
  /\ v = DefaultParams
  /\ busFrames = [b \in Buses |-> <<>>]
  /\ dtc = construct(1)
  /\ pc = "seeded"
  /\ loc = NoLocals
  /\ nBlocks = 0
  /\ nChanges = 0
  /\ deliveries = <<>>
  /\ screen = NoScreen
  /\ twins = <<>>

\* float randomGain = fastRandom(randState): loc.i counts the calls and
\* loc.output holds the float returned.
CallFastRandom ==
  /\ pc \in {"seeded", "drawn"}
  /\ loc.i < MaxRandomCalls
  /\ \E r \in {fastRandom(dtc.randState)} :
       /\ dtc' = [dtc EXCEPT !.randState = r.state]
       /\ loc' = [loc EXCEPT !.output = r.value, !.i = @ + 1]
  /\ pc' = "drawn"
  /\ UNCHANGED <<host, v, busFrames, nBlocks, nChanges, deliveries, screen, twins>>

SpecRandom == InitRandom /\ [][CallFastRandom]_vars


\* ------------------------------------------------------------------------
\* A resonating filter: full resonance, the cutoff at 20 kHz, and an input
\* that is +1 over one block of four frames and -1 over the next.
\* ------------------------------------------------------------------------
MaxResonateBlocks == 24

ResonatePresets ==
  {[DefaultParams EXCEPT !.kParamResonance = 1000, !.kParamCutoff = 20000,
                         !.kParamOversample = 0, !.kParamMode = mode]
     : mode \in 0..3}

InitResonate ==
  /\ host \in {[kind |-> "square", cv |-> Zero, preset |-> preset]
                 : preset \in ResonatePresets}
  /\ v = host.preset
  /\ busFrames = [b \in Buses |-> <<>>]
  /\ dtc = ConstructedDTC
  /\ pc = "idle"
  /\ loc = NoLocals
  /\ nBlocks = 0
  /\ nChanges = 0
  /\ deliveries = <<>>
  /\ screen = NoScreen
  /\ twins = <<>>

\* What the host puts on the buses for the block after nBlocks blocks.
ResonateBuses ==
  [b \in Buses |->
     [j \in 1..4 |->
        IF b = 1 THEN (IF nBlocks % 2 = 0 THEN One ELSE FNeg(One))
        ELSE IF b = 2 THEN host.cv
        ELSE Residue]]

\* The host fills the buses and calls step(); step() runs to its loop.
ResonateBegin ==
  /\ pc = "idle"
  /\ nBlocks < MaxResonateBlocks
  /\ \E bus \in {ResonateBuses} :
       \E r \in {StepSetup(v, dtc, bus, 1)} :
         /\ busFrames' = bus
         /\ dtc' = r.dtc
         /\ loc' = r.loc
  /\ pc' = "sample"
  /\ nBlocks' = nBlocks + 1
  /\ UNCHANGED <<host, v, nChanges, deliveries, screen, twins>>

NextResonate ==
  \/ ResonateBegin
  \/ SampleBegin
  \/ Pass
  \/ SampleEnd
  \/ StepEnd

SpecResonate == InitResonate /\ [][NextResonate]_vars


\* ------------------------------------------------------------------------
\* Properties
\* ------------------------------------------------------------------------
\* step() has computed at least one output sample of the running block, and
\* loc.output holds the last one.
Produced == pc \in {"sample", "meters"} /\ loc.i > 0

\* The selectors and the oversampling factor are the declared ones.
InRange ==
  /\ loc.mode \in 0..3
  /\ loc.model \in 0..2
  /\ loc.oversample \in {1, 2, 4, 8, 16}

\* C1: every output sample step() computes from finite input samples, with
\* Mode in 0..3, Model in 0..2 and an oversampling factor of 1, 2, 4, 8 or
\* 16, is finite and lies within [-1.2, 1.2], in whichever block it is
\* computed.
OutputBounded ==
  Produced /\ InRange =>
    /\ IsFinite(loc.output)
    /\ FLe(FAbs(loc.output), Lit(12, -1))

\* An output sample other than 0 computed from full-scale input, after the
\* first block, at sixteen passes per sample.
OutputBoundedWitness ==
  /\ Produced /\ InRange
  /\ nBlocks > 1
  /\ host.kind = "extreme"
  /\ loc.oversample = 16
  /\ ~IsZero(loc.output)


\* C2 as stated: the same frames delivered as one block or as two
\* consecutive blocks give the same output samples and the same final state,
\* level meters included.
BlockSizeIndependent ==
  pc = "delivered" => deliveries.whole = deliveries.split

\* C2, amended: when every smoothed value has reached its target (and a
\* connected CV bus holds the same value at the first frame of every block),
\* the same frames delivered as one block or as two consecutive blocks give
\* the same output samples and the same final lp, bp, hp, coefficients,
\* smoothed values and random state; the level meters are not covered.
BlockSizeIndependentSettled ==
  pc = "delivered" /\ deliveries.settled =>
    /\ deliveries.whole.out = deliveries.split.out
    /\ FilterState(deliveries.whole.dtc) = FilterState(deliveries.split.dtc)

\* After a first block, with the smoothed values settled, a square wave
\* delivered in the two ways: the same output, other than 0, the same
\* filter state and different output levels.
BlockSizeIndependentWitness ==
  /\ pc = "delivered"
  /\ deliveries.settled
  /\ nBlocks > 0
  /\ host.kind = "square"
  /\ deliveries.whole.out = deliveries.split.out
  /\ \E j \in DOMAIN deliveries.whole.out : ~IsZero(deliveries.whole.out[j])
  /\ ~IsZero(deliveries.whole.dtc.lp)
  /\ deliveries.whole.dtc.outputLevel # deliveries.split.dtc.outputLevel

\* C3: with Mode outside 0..3 the output sample is the one Mode = 0 gives,
\* and with Model outside 0..2 the output sample is the tanh saturation of
\* the sanitized average of the passes.
SelectorFallback ==
  pc = "sample" =>
    LET Out(l) == RunSample(dtc, l, busFrames).loc.output
        Sum(r) == RunPasses(r.dtc, r.loc).loc.output
        Avg(l) == FDiv(Sum(SampleStart(dtc, l, busFrames)), FromInt(l.oversample))
    IN  /\ loc.mode \notin 0..3 => Out(loc) = Out([loc EXCEPT !.mode = 0])
        /\ loc.model \notin 0..2 => Out(loc) = fastTanh(sanitize(Avg(loc)))


\* C4: from a freshly constructed instance, while every input sample is 0,
\* every output sample computed is exactly 0, lp, bp and hp stay 0, and the
\* level meters never rise: they stay at the 0 they start from.
SilenceStaysSilent ==
  host.kind = "silence" =>
    /\ IsZero(dtc.lp) /\ IsZero(dtc.bp) /\ IsZero(dtc.hp)
    /\ Produced => IsZero(loc.output)
    /\ IsZero(dtc.inputLevel) /\ IsZero(dtc.outputLevel)

\* Silence through the MS diode model, in a later block, after the preset
\* was applied.
SilenceStaysSilentWitness ==
  /\ host.kind = "silence"
  /\ Produced
  /\ nBlocks > 1
  /\ loc.model = 1
  /\ IsZero(loc.output)

\* C5: in every reachable state, so after every inner pass, the stored bp
\* and lp are within [-5, 5] and the stored lp, bp and hp are finite and of
\* magnitude at most 1e10.
StateClamped ==
  /\ FLe(FAbs(dtc.bp), Lit(5, 0))
  /\ FLe(FAbs(dtc.lp), Lit(5, 0))
  /\ \A x \in {dtc.lp, dtc.bp, dtc.hp} :
       IsFinite(x) /\ FLe(FAbs(x), Lit(1, 10))

\* A pass on a sample other than 0 whose coefficients are NaN: what it
\* computes is NaN and what it stores is 0.
StateClampedWitness ==
  /\ pc \in {"pass", "finish"}
  /\ loc.os > 0
  /\ IsNaN(dtc.g)
  /\ ~IsZero(loc.input)
  /\ IsZero(dtc.hp)

\* C6: within one step() call g, k and gInv are written once, before the
\* sample loop: no sample iteration, no pass and no meter update changes
\* them.
CoefficientsOncePerStep ==
  /\ [][pc # "idle" => /\ dtc.g' = dtc.g
                       /\ dtc.k' = dtc.k
                       /\ dtc.gInv' = dtc.gInv]_vars
  /\ [](pc # "idle" => loc.coefWrites = 1)

\* The end of a block whose coefficients differ from the constructed ones,
\* after all of its passes.
CoefficientsOncePerStepWitness ==
  /\ pc = "meters"
  /\ loc.passes = loc.numFrames * loc.oversample
  /\ loc.oversample > 1
  /\ loc.coefWrites = 1
  /\ dtc.g # ConstructedDTC.g

\* C7: with a Resonance control in 0..1000, the resonance target of a block
\* is within [0, 1] when the resonance CV is connected, whatever the CV
\* sample and amount, resonanceSmooth is within [0, 1] and k is within
\* [0.1, 2.0].
ResonanceClamped ==
  v.kParamResonance \in 0..1000 =>
    /\ pc # "idle" /\ v.kParamCvResonance > 0 =>
         FGe(loc.resonance, Zero) /\ FLe(loc.resonance, One)
    /\ FGe(dtc.resonanceSmooth, Zero) /\ FLe(dtc.resonanceSmooth, One)
    /\ FGe(dtc.k, Lit(1, -1)) /\ FLe(dtc.k, Two)

\* A block whose modulated resonance, 0 + 30 * amount * 0.5, was brought
\* down to 1.
ResonanceClampedWitness ==
  /\ pc # "idle"
  /\ v.kParamCvResonance > 0
  /\ busFrames[v.kParamCvResonance][1] = Lit(30, 0)
  /\ FGt(dtc.cvResAmtSmooth, Zero)
  /\ loc.resonance = One

\* C8: whatever the smoothed cutoff, the cutoff that calculateFilterCoeffs
\* takes the tangent of is within [20, 0.45 x effective rate], its ratio to
\* the effective rate is at most 0.45, and g is the tangent of pi times
\* that ratio.
CutoffClamped ==
  pc # "idle" =>
    LET rate == EffectiveRate(v)
        InBand(c) ==
          /\ FGe(c, Lit(20, 0))
          /\ FLe(c, FMul(rate, Lit(45, -2)))
          /\ FLe(FDiv(c, rate), Lit(45, -2))
          /\ dtc.g = tanf(FDiv(FMul(M_PI, c), rate))
    IN  InBand(ClampCutoff(dtc.cutoffSmooth, rate))

UnconnectedCvIgnored ==
  pc # "idle" =>
    /\ v.kParamCvCutoff = 0 =>
         /\ loc.cutoff = FromInt(v.kParamCutoff)
         /\ "cvCutoff" \notin loc.cvRead
    /\ v.kParamCvResonance = 0 =>
         /\ loc.resonance = FDiv(FromInt(v.kParamResonance), Lit(1000, 0))
         /\ "cvResonance" \notin loc.cvRead

\* A block with both CV inputs unconnected, both CV amounts at -100 % and
\* 30.0 on bus 2.
UnconnectedCvIgnoredWitness ==
  /\ pc # "idle"
  /\ v.kParamCvCutoff = 0 /\ v.kParamCvResonance = 0
  /\ v.kParamCvCutoffAmt = -1000 /\ v.kParamCvResonanceAmt = -1000
  /\ busFrames[2][1] = Lit(30, 0)
  /\ loc.cvRead = {}
  /\ loc.cutoff = Lit(1000, 0)

\* C11: neither draw() nor parameterChanged() modifies the core state: every
\* step of the instance that is not a step() call leaves the whole DTC (lp,
\* bp, hp, g, k, gInv, the six smoothed values, randState and the two
\* levels) as it was, so a parameter change reaches the filter only in the
\* next step() call.
CoreStateFrame == [][nBlocks' = nBlocks => dtc' = dtc]_vars

\* draw() has run to its end after a parameter change and a step() call that
\* left a level to show.
CoreStateFrameWitness ==
  /\ screen.phase = "done"
  /\ nChanges > 0
  /\ nBlocks > 0
  /\ v # DefaultParams
  /\ screen.outWidth > 0
  /\ ~IsZero(dtc.lp)

\* C12: step() writes only the numFrames samples of the selected output bus.
\* The end of each iteration of the sample loop changes one sample, out[i]:
\* to the computed output sample when the output-mode flag is set, to the
\* sum of the old out[i] and the computed sample otherwise; no other step of
\* the call changes any sample of any bus, and the call ends after numFrames
\* such writes.
OnlyOutputWritten ==
  /\ [][pc # "idle" =>
          /\ DOMAIN busFrames' = DOMAIN busFrames
          /\ \A b \in DOMAIN busFrames :
               /\ DOMAIN busFrames'[b] = DOMAIN busFrames[b]
               /\ \A j \in DOMAIN busFrames[b] :
                    busFrames'[b][j] =
                      IF pc = "finish" /\ b = v.kParamOutput /\ j = loc.i + 1
                      THEN (IF v.kParamOutputMode # 0
                            THEN OutputSample(loc.model, loc.output, loc.oversample)
                            ELSE FAdd(busFrames[b][j],
                                      OutputSample(loc.model, loc.output,
                                                   loc.oversample)))
                      ELSE busFrames[b][j]]_vars
  /\ [](pc = "finish" => loc.i < loc.numFrames)
  /\ [](pc = "meters" => loc.i = loc.numFrames)

\* A call in add mode has ended: every sample of the output bus is the sum
\* of what the bus held and a non-zero output sample, the other buses are as
\* the host filled them.
OnlyOutputWrittenWitness ==
  /\ pc = "meters"
  /\ v.kParamOutputMode = 0
  /\ \A j \in DOMAIN busFrames[13] :
       /\ busFrames[13][j] # Residue
       /\ FLt(FAbs(FSub(busFrames[13][j], Residue)), Lit(12, -1))
  /\ busFrames[1] = HostBuses(host.kind, host.cv, loc.numFrames)[1]
  /\ busFrames[2] = HostBuses(host.kind, host.cv, loc.numFrames)[2]

\* C13: the AGR gain is continuous at its zone boundaries.  processAGR(25)
\* returns exactly 0.5 whatever the random state, which is what the formula
\* of the attenuation zone gives at 25; processAGR(50) returns 1.0, which is
\* what the formula of the amplification zone gives at 50; processAGR(100)
\* returns 4.0.
AgrContinuous ==
  pc = "gained" =>
    /\ ToInt(dtc.agrSmooth) = 25 =>
         loc.agrGain = Lit(5, -1) /\ loc.agrGain = AttenuationGain(25)
    /\ ToInt(dtc.agrSmooth) = 50 =>
         loc.agrGain = One /\ loc.agrGain = AmplificationGain(50)
    /\ ToInt(dtc.agrSmooth) = 100 => loc.agrGain = Lit(4, 0)

\* processAGR(25) has run on a random state whose random number is not 0.
AgrContinuousWitness ==
  /\ pc = "gained"
  /\ ToInt(dtc.agrSmooth) = 25
  /\ LowBits(dtc.randState, 31) > 0
  /\ loc.agrGain = Lit(5, -1)

SaturationBounded ==
  /\ pc = "fastTanh" /\ ~IsNaN(loc.input) => FLe(FAbs(loc.output), One)
  /\ pc = "aggressiveSat" /\ ~IsNaN(loc.input) => FLe(FAbs(loc.output), Lit(8, -1))

\* C16, as the specification states it: for every finite argument the MS
\* saturation (diodeClip) returns a value strictly between -0.5 and 1, and
\* it returns 0 for 0.
DiodeClipOpenInterval ==
  pc = "diodeClip" /\ IsFinite(loc.input) =>
    /\ FGt(loc.output, Lit(-5, -1))
    /\ FLt(loc.output, One)
    /\ (IsZero(loc.input) => IsZero(loc.output))

\* C16, amended: for every finite argument diodeClip returns a value
\* between -0.5 and 1, the two ends included, of the sign of the argument,
\* and it returns 0 for 0.
DiodeClipClosedInterval ==
  pc = "diodeClip" /\ IsFinite(loc.input) =>
    /\ FGe(loc.output, Lit(-5, -1))
    /\ FLe(loc.output, One)
    /\ (FGt(loc.input, Zero) => FGe(loc.output, Zero))
    /\ (FLt(loc.input, Zero) => FLe(loc.output, Zero))
    /\ (IsZero(loc.input) => IsZero(loc.output))

\* diodeClip has returned exactly 1 for the finite argument 20.
DiodeClipClosedIntervalWitness ==
  /\ pc = "diodeClip"
  /\ loc.input = Lit(2, 1)
  /\ loc.output = One

\* C17: sanitize returns 0 for NaN, for the infinities and for every value
\* above 1e10 in magnitude, returns every other value unchanged, and
\* sanitize of what sanitize returned is what sanitize returned.
SanitizeIdempotent ==
  /\ pc = "sanitize" =>
       loc.output = IF IsNaN(loc.input) \/ IsInf(loc.input)
                       \/ FGt(FAbs(loc.input), Lit(1, 10))
                    THEN Zero ELSE loc.input
  /\ pc = "sanitize again" => loc.output = sanitize(loc.input)

\* sanitize has been applied twice to 1e20, and returned 0.
SanitizeIdempotentWitness ==
  /\ pc = "sanitize again"
  /\ loc.input = Lit(1, 20)
  /\ loc.output = Zero

\* C18: with the Drive control held at 1000, the drive multiplier applied
\* to each input sample is exactly 5.0, the input of the filter core being
\* the bus sample times the AGR gain times 5.0, and no output sample exceeds
\* the bound of the active model's saturation.
DriveAtMaximum ==
  v.kParamDrive = 1000 =>
    /\ pc \in {"pass", "finish"} =>
         /\ dtc.driveSmooth = Lit(5, 0)
         /\ loc.input = FMul(FMul(busFrames[loc.inBus][loc.i + 1], loc.agrGain),
                              Lit(5, 0))
    /\ Produced => WithinModelBound(loc.model, loc.output)

\* What is left between a smoothed value and its target, during a step()
\* call and over the step that enters one.
Remaining(f) == FAbs(FSub(StepTarget(f), dtc[f]))
RemainingBefore(f) == FAbs(FSub(CallTarget(f), dtc[f]))
RemainingAfter(f) == FAbs(FSub(CallTarget(f), dtc'[f]))

\* The smoothed value has not passed its target, nor moved away from it.
Toward(f) ==
  /\ FLe(dtc[f], CallTarget(f)) => FLe(dtc[f], dtc'[f]) /\ FLe(dtc'[f], CallTarget(f))
  /\ FGe(dtc[f], CallTarget(f)) => FGe(dtc[f], dtc'[f]) /\ FGe(dtc'[f], CallTarget(f))

\* Each smoothed value is written once per step() call, on entry, by
\* stored += (target - stored) * 0.1, and by nothing else.
SmoothedOncePerStep ==
  \A f \in SmoothedFields :
    dtc'[f] = IF Calling THEN Smooth(dtc[f], CallTarget(f)) ELSE dtc[f]

\* A hundredth of the range of the control behind each smoothed value.
Tolerance(f) ==
  CASE f = "cutoffSmooth" -> Lit(200, 0)
    [] f = "resonanceSmooth" -> Lit(1, -2)
    [] f = "driveSmooth" -> Lit(4, -2)
    [] f = "agrSmooth" -> Lit(1, 0)
    [] f \in {"cvCutoffAmtSmooth", "cvResAmtSmooth"} -> Lit(2, -2)

\* The smoothed value has stopped: another step() call toward the same
\* target would leave it as it is.
Stopped(f) == Smooth(dtc[f], StepTarget(f)) = dtc[f]

Sampling == pc = "sample" /\ pc' = "pass"

\* C20, as the specification states it: for every sample step() processes
\* the random state is advanced by exactly one xorshift step, whatever the
\* AGR setting, and nothing else changes it.
RandomStateEverySample ==
  [][dtc'.randState = IF Sampling THEN xorshift(dtc.randState)
                      ELSE dtc.randState]_vars

\* C20, amended: for every sample step() processes while the truncated
\* smoothed AGR value is at most 25 the random state is advanced by exactly
\* one xorshift step, once per sample and not once per pass; for every
\* other sample, and in every other step, it is left as it is.
RandomStateInRandomZone ==
  [][dtc'.randState = IF Sampling /\ ToInt(dtc.agrSmooth) <= 25
                      THEN xorshift(dtc.randState)
                      ELSE dtc.randState]_vars

\* The first sample of the random zone has been through its two passes and
\* the seed has been advanced once.
RandomStateInRandomZoneWitness ==
  /\ pc = "finish"
  /\ loc.oversample = 2
  /\ loc.os = 2
  /\ ToInt(dtc.agrSmooth) <= 25
  /\ dtc.randState = xorshift(U32(4660, 22136))

\* C21: the random state is 0x12345678 after construction and is not 0
\* after any number of fastRandom calls; every call returns the low 31 bits
\* of the new state divided by 0x7FFFFFFF, a value in [0, 1].
RandomStateNeverZero ==
  /\ dtc.randState # U32(0, 0)
  /\ pc = "seeded" => dtc.randState = U32(4660, 22136)
  /\ pc = "drawn" =>
       /\ loc.output = FDiv(FromInt(LowBits(dtc.randState, 31)), FromInt(2147483647))
       /\ FGe(loc.output, Zero)
       /\ FLe(loc.output, One)

\* Three calls after construction the state is 0x4820F4C4 and the value
\* returned lies strictly between 0 and 1.
RandomStateNeverZeroWitness ==
  /\ pc = "drawn"
  /\ loc.i = 3
  /\ dtc.randState = U32(18464, 62660)
  /\ FGt(loc.output, Lit(5, -1))
  /\ FLt(loc.output, Lit(6, -1))

\* The DTC with other values on the two level meters, and the DTC with the
\* meters of another.
OtherLevels(d) ==
  [d EXCEPT !.inputLevel = FAdd(@, One), !.outputLevel = FAdd(@, Two)]
WithLevelsOf(d, e) ==
  [d EXCEPT !.inputLevel = e.inputLevel, !.outputLevel = e.outputLevel]

\* The larger of the peak so far and the magnitude of a sample, as the
\* comparison of the source finds it.
Peak(peak, sample) == IF FGt(FAbs(sample), peak) THEN FAbs(sample) ELSE peak

\* C22: the two level meters are written once per step() call, after the
\* last sample of the block, to level * 0.95 + peak * 0.05, where the peaks
\* start at 0 in each call and follow the magnitude of every conditioned
\* input sample and of every output sample; no other step changes the
\* meters, and every step leaves the same buses, locals and other DTC
\* fields when it starts from other meter values.
MetersOncePerStep ==
  /\ [][IF pc = "meters" /\ pc' = "idle"
        THEN /\ loc.i = loc.numFrames
             /\ dtc'.inputLevel =
                  FAdd(FMul(dtc.inputLevel, Lit(95, -2)), FMul(loc.maxIn, Lit(5, -2)))
             /\ dtc'.outputLevel =
                  FAdd(FMul(dtc.outputLevel, Lit(95, -2)), FMul(loc.maxOut, Lit(5, -2)))
        ELSE /\ dtc'.inputLevel = dtc.inputLevel
             /\ dtc'.outputLevel = dtc.outputLevel]_vars
  /\ [][/\ pc = "idle" /\ pc' = "sample" => loc'.maxIn = Zero /\ loc'.maxOut = Zero
        /\ pc = "sample" /\ pc' = "pass" =>
             loc'.maxIn = Peak(loc.maxIn, loc'.input) /\ loc'.maxOut = loc.maxOut
        /\ pc = "pass" => loc'.maxIn = loc.maxIn /\ loc'.maxOut = loc.maxOut
        /\ pc = "finish" =>
             loc'.maxOut = Peak(loc.maxOut, loc'.output) /\ loc'.maxIn = loc.maxIn]_vars
  /\ [][/\ pc = "idle" /\ pc' = "sample" =>
             \E r \in {StepSetup(v, OtherLevels(dtc), busFrames', loc'.numFrames \div 4)} :
               WithLevelsOf(r.dtc, dtc') = dtc' /\ r.loc = loc'
        /\ pc = "sample" /\ pc' = "pass" =>
             \E r \in {SampleStart(OtherLevels(dtc), loc, busFrames)} :
               WithLevelsOf(r.dtc, dtc') = dtc' /\ r.loc = loc'
        /\ pc = "pass" =>
             \E r \in {InnerPass(OtherLevels(dtc), loc)} :
               WithLevelsOf(r.dtc, dtc') = dtc' /\ r.loc = loc'
        /\ pc = "meters" /\ pc' = "idle" =>
             WithLevelsOf(dtc', dtc) = dtc /\ busFrames' = busFrames]_vars

\* The third step() call has ended: the meters hold what the peaks of a
\* full-scale block made of meters that were already above 0.
MetersOncePerStepWitness ==
  /\ pc = "idle"
  /\ nBlocks = 3
  /\ host.kind = "square"
  /\ FGt(dtc.inputLevel, Lit(1, -1))
  /\ FGt(dtc.outputLevel, Zero)
  /\ FLt(dtc.inputLevel, One)

\* The oversampling factor of the Oversample parameter.
Factor == 2 ^ v.kParamOversample

\* The steps a step() call still has to take: per sample its head, its
\* passes and its tail, and the meters at the end.
StepsLeft ==
  CASE pc = "idle" -> 0
    [] pc = "meters" -> 1
    [] pc = "sample" -> (loc.numFrames - loc.i) * (Factor + 2) + 1
    [] pc = "pass" -> (loc.numFrames - loc.i - 1) * (Factor + 2) + (Factor - loc.os) + 2
    [] pc = "finish" -> (loc.numFrames - loc.i - 1) * (Factor + 2) + 2

\* C23: with the Oversample parameter p in 0..4 every output sample is
\* produced by exactly 2^p passes that use the same conditioned input, the
\* sum starts at 0 and the sample is the output-stage saturation of the
\* sanitized sum divided by 2^p; every step of a step() call brings its end
\* one step nearer, and the call ends after numFrames * 2^p passes.
PassesPerSample ==
  /\ [](pc # "idle" =>
          /\ v.kParamOversample \in 0..4
          /\ loc.oversample = Factor
          /\ loc.passes = loc.i * Factor
                           + (IF pc \in {"pass", "finish"} THEN loc.os ELSE 0)
          /\ pc = "pass" => loc.os < Factor
          /\ pc = "finish" => loc.os = Factor
          /\ pc = "meters" => loc.i = loc.numFrames
                               /\ loc.passes = loc.numFrames * Factor)
  /\ [][/\ pc = "sample" => loc'.output = Zero /\ loc'.os = 0
        /\ pc = "pass" => loc'.input = loc.input /\ loc'.os = loc.os + 1
        /\ pc = "finish" =>
             loc'.output = PostSaturate(loc.model,
                                        sanitize(FDiv(loc.output, FromInt(Factor))))
        /\ pc # "idle" => StepsLeft' = StepsLeft - 1]_vars

\* A call at sixteen passes per sample has processed its four frames in 64
\* passes, and its last output sample is not 0.
PassesPerSampleWitness ==
  /\ pc = "meters"
  /\ v.kParamOversample = 4
  /\ loc.numFrames = 4
  /\ loc.passes = 64
  /\ ~IsZero(loc.output)

\* hp, bp and lp of the pass about to run, before the soft clamp.
PassHp ==
  FMul(FSub(FSub(PreSaturate(loc.model, loc.input, loc.resAmt),
                 FMul(dtc.k, dtc.bp)), dtc.lp), dtc.gInv)
PassBp == FAdd(FMul(dtc.g, PassHp), dtc.bp)
PassLp == FAdd(FMul(dtc.g, PassBp), dtc.lp)

\* C24 as stated: every pass adds to the output sum lp, bp, hp or lp - hp as
\* the three formulas give them, with hp = (u - k * bp_prev - lp_prev) * gInv,
\* bp = g * hp + bp_prev and lp = g * bp + lp_prev.
PassAddsFormulaValues ==
  [][pc = "pass" =>
       loc'.output = FAdd(loc.output, ModeOutput(loc.mode, PassLp, PassBp, PassHp))]_vars

\* C24: every pass computes hp, bp and lp by the three formulas from the
\* stored state and the saturated input, limits bp and lp to [-5, 5], stores
\* the sanitized values, and adds to the output sum the limited lp in
\* Lowpass mode, the limited bp in Bandpass mode, hp in Highpass mode and the
\* limited lp minus hp in All-pass mode.
PassAddsClampedValues ==
  [][pc = "pass" =>
       /\ loc'.output = FAdd(loc.output,
                             ModeOutput(loc.mode, softClamp(PassLp, Lit(5, 0)),
                                        softClamp(PassBp, Lit(5, 0)), PassHp))
       /\ dtc'.hp = sanitize(PassHp)
       /\ dtc'.bp = sanitize(softClamp(PassBp, Lit(5, 0)))
       /\ dtc'.lp = sanitize(softClamp(PassLp, Lit(5, 0)))]_vars

\* A pass is about to run in Lowpass mode whose lp the soft clamp limits.
PassAddsClampedValuesWitness ==
  /\ pc = "pass"
  /\ loc.mode = 0
  /\ FGt(FAbs(PassLp), Lit(5, 0))

\* The zone of an integer AGR value.
ZoneOf(agrValue) ==
  IF agrValue <= 25 THEN "randomization"
  ELSE IF agrValue <= 50 THEN "attenuation"
  ELSE "amplification"

\* C25: the AGR gain of every sample is computed from the smoothed AGR value
\* truncated to an integer, whatever the raw control: the random gain when
\* the truncated value is at most 25, the attenuation when it is 26..50, the
\* amplification when it is 51 or more; and the zone changes only where
\* step() smooths the AGR value at the start of a call.
GainFromSmoothedAGR ==
  /\ [][Sampling =>
          \E agrValue \in {ToInt(dtc.agrSmooth)} :
            loc'.agrGain =
              CASE ZoneOf(agrValue) = "randomization" ->
                     FAdd(FDiv(FromInt(agrValue), Lit(50, 0)),
                          FMul(fastRandom(dtc.randState).value,
                               FSub(One, FDiv(FromInt(agrValue), Lit(25, 0)))))
                [] ZoneOf(agrValue) = "attenuation" ->
                     FAdd(Lit(5, -1),
                          FMul(FDiv(FromInt(agrValue - 25), Lit(25, 0)), Lit(5, -1)))
                [] ZoneOf(agrValue) = "amplification" ->
                     FAdd(One,
                          FMul(FDiv(FromInt(agrValue - 50), Lit(50, 0)), Lit(3, 0)))]_vars
  /\ [][ZoneOf(ToInt(dtc'.agrSmooth)) # ZoneOf(ToInt(dtc.agrSmooth)) => Calling]_vars

\* The raw control is 0, in the randomization zone, while the smoothed value
\* is still in the attenuation zone with a fraction: the sample has the
\* attenuation gain of the truncated value and the seed is untouched.
GainFromSmoothedAGRWitness ==
  /\ pc = "pass"
  /\ ZoneOf(v.kParamInputAGR \div 10) = "randomization"
  /\ dtc.agrSmooth = Lit(405, -1)
  /\ loc.agrGain = Lit(8, -1)
  /\ dtc.randState = U32(4660, 22136)

\* The buses with every sample but the first of the two CV buses replaced.
FirstCvSampleOnly(bus) ==
  [b \in DOMAIN bus |->
     IF b \in {v.kParamCvCutoff, v.kParamCvResonance}
     THEN [j \in DOMAIN bus[b] |-> IF j = 1 THEN bus[b][j] ELSE Lit(-7, 0)]
     ELSE bus[b]]

\* The values step() smooths and the coefficients it computes from them.
BlockRate(d) ==
  <<d.driveSmooth, d.agrSmooth, d.cvCutoffAmtSmooth, d.cvResAmtSmooth,
    d.cutoffSmooth, d.resonanceSmooth, d.g, d.k, d.gInv>>

\* The order of the phases of a call.
PhaseOrder ==
  {<<"idle", "sample">>, <<"sample", "pass">>, <<"pass", "pass">>,
   <<"pass", "finish">>, <<"finish", "sample">>, <<"finish", "meters">>,
   <<"meters", "idle">>}

\* C26: in every step() call drive, AGR and the two CV amounts are smoothed
\* first; the CV modulation uses the CV amounts as this call has left them
\* and the first sample of each CV bus only; cutoff and resonance are
\* smoothed toward the modulated values; the coefficients are computed from
\* the cutoff and resonance just smoothed; then all samples are processed
\* with these values unchanged, and the level meters are written last.
PhasesInOrder ==
  /\ [][Calling =>
          /\ \A f \in {"driveSmooth", "agrSmooth", "cvCutoffAmtSmooth",
                        "cvResAmtSmooth"} :
               dtc'[f] = Smooth(dtc[f], ControlTarget(v, f))
          /\ loc'.cutoff = CutoffTarget(v, dtc', busFrames')
          /\ loc'.resonance = ResonanceTarget(v, dtc', busFrames')
          /\ \E bus \in {FirstCvSampleOnly(busFrames')} :
               /\ loc'.cutoff = CutoffTarget(v, dtc', bus)
               /\ loc'.resonance = ResonanceTarget(v, dtc', bus)
          /\ dtc'.cutoffSmooth = Smooth(dtc.cutoffSmooth, loc'.cutoff)
          /\ dtc'.resonanceSmooth = Smooth(dtc.resonanceSmooth, loc'.resonance)
          /\ \E co \in {calculateFilterCoeffs(dtc'.cutoffSmooth, dtc'.resonanceSmooth,
                                               FMul(FromInt(SampleRate), FromInt(Factor)))} :
               /\ dtc'.g = co.g
               /\ dtc'.k = co.k
               /\ dtc'.gInv = co.gInv
          /\ loc'.i = 0
          /\ dtc'.inputLevel = dtc.inputLevel
          /\ dtc'.outputLevel = dtc.outputLevel]_vars
  /\ [][pc # "idle" => BlockRate(dtc') = BlockRate(dtc)]_vars
  /\ [][pc' # pc \/ pc = "pass" => <<pc, pc'>> \in PhaseOrder]_vars
  /\ [][pc' = "meters" => loc'.i = loc'.numFrames /\ loc'.numFrames > 0]_vars
  /\ [][dtc'.inputLevel # dtc.inputLevel \/ dtc'.outputLevel # dtc.outputLevel
          => pc = "meters" /\ pc' = "idle"]_vars

\* The second call with both CV buses connected has run to its end: the CV
\* amounts have been smoothed twice, the cutoff is modulated and the meters
\* have been written.
PhasesInOrderWitness ==
  /\ pc = "idle"
  /\ nBlocks = 2
  /\ v.kParamCvCutoff = 2
  /\ v.kParamCvResonance = 2
  /\ dtc.cvCutoffAmtSmooth = Smooth(Smooth(ConstructedDTC.cvCutoffAmtSmooth, Lit(5, -1)), Lit(5, -1))
  /\ FNe(dtc.cutoffSmooth, ConstructedDTC.cutoffSmooth)
  /\ FGt(dtc.inputLevel, Zero)

\* C27: with the Drive and Input (AGR) parameters in 0..1000, in every
\* state driveSmooth is in [1, 5] and agrSmooth is in [0, 100], so that the
\* integer passed to processAGR is in 0..100, and the AGR gain of every
\* sample is in [0, 4].
SmoothedInRange ==
  /\ v.kParamDrive \in 0..1000
  /\ v.kParamInputAGR \in 0..1000
  /\ FGe(dtc.driveSmooth, One)
  /\ FLe(dtc.driveSmooth, Lit(5, 0))
  /\ FGe(dtc.agrSmooth, Zero)
  /\ FLe(dtc.agrSmooth, Lit(100, 0))
  /\ ToInt(dtc.agrSmooth) \in 0..100
  /\ pc \in {"pass", "finish"} =>
       /\ loc.agrGain = processAGR(ToInt(dtc.agrSmooth), U32(4660, 22136)).gain
          \/ ToInt(dtc.agrSmooth) <= 25
       /\ FGe(loc.agrGain, Zero)
       /\ FLe(loc.agrGain, Lit(4, 0))

\* Drive and Input (AGR) have been at 1000 for 60 blocks: driveSmooth is
\* within a hundredth of 5, the truncated AGR value is 99 and the gain of
\* the sample is that of 99.
SmoothedInRangeWitness ==
  /\ pc = "pass"
  /\ nBlocks > 60
  /\ v.kParamDrive = 1000
  /\ v.kParamInputAGR = 1000
  /\ FGt(dtc.driveSmooth, Lit(499, -2))
  /\ ToInt(dtc.agrSmooth) = 99
  /\ loc.agrGain = Lit(394, -2)

====
